---------------------------- MODULE Spec2Model ----------------------------
(***************************************************************************)
(* Model of the document pipeline orchestrator                             *)
(* (backend/app/services/orchestrator.py) together with the validators,    *)
(* the snapshot/rollback helper, the JSON-file document store and the      *)
(* file-backed knowledge base it drives.                                   *)
(*                                                                         *)
(* Strings are sequences of one-character strings, so that length,         *)
(* slicing, splitting, stripping and lower-casing are computed the way     *)
(* the Python code computes them.                                          *)
(***************************************************************************)
EXTENDS Integers, Sequences, FiniteSets, TLC

(***************************************************************************)
(* Text primitives (Python str methods used by the code)                   *)
(***************************************************************************)

Min(a, b) == IF a <= b THEN a ELSE b

Max(a, b) == IF a >= b THEN a ELSE b

\* The whitespace characters of the model's alphabet.
IsWs(c) == c \in {" ", "\n"}

\* str.lower() on one character; the capitals of the alphabet are N, S, A, I.
LowerChar(c) ==
    CASE c = "N" -> "n"
      [] c = "S" -> "s"
      [] c = "A" -> "a"
      [] c = "I" -> "i"
      [] OTHER -> c

\* str.lower()
Lower(s) == [i \in 1..Len(s) |-> LowerChar(s[i])]

\* not s.strip(): the string is empty or whitespace only.
IsBlank(s) == \A i \in 1..Len(s) : IsWs(s[i])

\* str.strip()
Strip(s) ==
    IF IsBlank(s) THEN <<>>
    ELSE LET lo == CHOOSE i \in 1..Len(s) :
                       ~IsWs(s[i]) /\ \A j \in 1..(i - 1) : IsWs(s[j])
             hi == CHOOSE i \in 1..Len(s) :
                       ~IsWs(s[i]) /\ \A j \in (i + 1)..Len(s) : IsWs(s[j])
         IN SubSeq(s, lo, hi)

\* s[:n] for n >= 0
Take(s, n) == SubSeq(s, 1, Min(n, Len(s)))

\* The elements of a finite set of integers in increasing order.
RECURSIVE SortedIn(_, _, _)
SortedIn(S, lo, hi) ==
    IF lo > hi THEN <<>>
    ELSE IF lo = hi THEN (IF lo \in S THEN <<lo>> ELSE <<>>)
    ELSE LET mid == (lo + hi) \div 2
         IN SortedIn(S, lo, mid) \o SortedIn(S, mid + 1, hi)

SortedSeq(S) ==
    IF S = {} THEN <<>>
    ELSE SortedIn(S, CHOOSE x \in S : \A y \in S : x <= y,
                     CHOOSE x \in S : \A y \in S : x >= y)

\* The maximal runs of the positions `keep` of s, in order, as substrings:
\* the pieces left when the other positions are separators.
Runs(s, keep) ==
    LET starts == {i \in keep : (i - 1) \notin keep}
        EndOf(i) == CHOOSE j \in i..Len(s) :
                        /\ (j + 1) \notin keep
                        /\ \A k \in i..j : k \in keep
        order == SortedSeq(starts)
    IN [n \in 1..Len(order) |-> SubSeq(s, order[n], EndOf(order[n]))]

\* str.split(): the whitespace-separated tokens.
SplitWs(s) == Runs(s, {i \in 1..Len(s) : ~IsWs(s[i])})

\* str.splitlines() for the line break "\n": a final line break opens no
\* further line, and an empty string has no lines.
SplitLines(s) ==
    LET starts == {i \in 1..Len(s) : i = 1 \/ s[i - 1] = "\n"}
        EndOf(i) == IF s[i] = "\n" THEN i - 1
                    ELSE CHOOSE j \in i..Len(s) :
                             /\ (j = Len(s) \/ s[j + 1] = "\n")
                             /\ \A k \in i..j : s[k] # "\n"
        order == SortedSeq(starts)
    IN [n \in 1..Len(order) |-> SubSeq(s, order[n], EndOf(order[n]))]

\* sep.join(parts)
RECURSIVE Join(_, _)
Join(parts, sep) ==
    IF parts = <<>> THEN <<>>
    ELSE IF Len(parts) = 1 THEN parts[1]
    ELSE parts[1] \o sep \o Join(Tail(parts), sep)

\* needle in hay (substring test)
Contains(hay, needle) ==
    \E i \in 0..(Len(hay) - Len(needle)) :
        SubSeq(hay, i + 1, i + Len(needle)) = needle

\* The elements of a sequence as a set.
Range(xs) == {xs[i] : i \in 1..Len(xs)}

\* c repeated n times
Rep(c, n) == [i \in 1..n |-> c]

NL == <<"\n">>

SP == <<" ">>

(***************************************************************************)
(* Validators (backend/app/services/validators.py)                         *)
(***************************************************************************)

SummaryMinLen == 40

SummaryMaxLen == 4000

CoverageTokens == 500

CoverageMinHits == 2

MaxEntities == 200

\* The presence threshold 0.2 as the fraction PresenceNum / PresenceDen.
PresenceNum == 1

PresenceDen == 5

Accept == [ok |-> TRUE, reason |-> "", present |-> 0, total |-> 0]

Reject(reason) == [ok |-> FALSE, reason |-> reason, present |-> 0, total |-> 0]

\* The summary validator as a slip would have it: coverage is looked at
\* before the length.
SummaryValidate_CoverageFirst(raw_text, summary) ==
    IF summary = <<>> \/ IsBlank(summary) THEN Reject("empty_summary")
    ELSE LET src_terms == {Lower(t) : t \in Range(Take(SplitWs(raw_text), CoverageTokens))}
             hit == Cardinality({t \in Range(SplitWs(Lower(summary))) : t \in src_terms})
         IN IF hit < CoverageMinHits THEN Reject("low_coverage")
            ELSE IF Len(summary) < SummaryMinLen THEN Reject("too_short")
            ELSE IF Len(summary) > SummaryMaxLen THEN Reject("too_long")
            ELSE Accept

\* The summary validator as a slip would have it: the two limits
\* themselves are out of bounds.
SummaryValidate_OpenInterval(raw_text, summary) ==
    IF summary = <<>> \/ IsBlank(summary) THEN Reject("empty_summary")
    ELSE IF Len(summary) <= SummaryMinLen THEN Reject("too_short")
    ELSE IF Len(summary) >= SummaryMaxLen THEN Reject("too_long")
    ELSE LET src_terms == {Lower(t) : t \in Range(Take(SplitWs(raw_text), CoverageTokens))}
             hit == Cardinality({t \in Range(SplitWs(Lower(summary))) : t \in src_terms})
         IN IF hit < CoverageMinHits THEN Reject("low_coverage") ELSE Accept

\* SummaryValidator.validate(raw_text, summary)
SummaryValidate(raw_text, summary) ==
    IF summary = <<>> \/ IsBlank(summary) THEN Reject("empty_summary")
    ELSE IF Len(summary) < SummaryMinLen THEN Reject("too_short")
    ELSE IF Len(summary) > SummaryMaxLen THEN Reject("too_long")
    ELSE LET src_terms == {Lower(t) : t \in Range(Take(SplitWs(raw_text), CoverageTokens))}
             hit == Cardinality({t \in Range(SplitWs(Lower(summary))) : t \in src_terms})
         IN IF hit < CoverageMinHits THEN Reject("low_coverage") ELSE Accept

\* "No entities found."
SentinelText ==
    <<"N", "o", " ", "e", "n", "t", "i", "t", "i", "e", "s", " ",
      "f", "o", "u", "n", "d", ".">>

\* The spellings the entity validator takes for "no entities":
\* "no entities found.", "no entities found", "none".
NoEntityMarkers ==
    { Lower(SentinelText),
      SubSeq(Lower(SentinelText), 1, Len(SentinelText) - 1),
      <<"n", "o", "n", "e">> }

\* The entity validator as a slip would have it: a ratio equal to the
\* threshold is rejected too.
EntityValidate_AtMost(raw_text, entities) ==
    IF Len(entities) > MaxEntities THEN Reject("too_many_entities")
    ELSE IF Len(entities) = 1 /\ Lower(entities[1]) \in NoEntityMarkers THEN Accept
    ELSE LET raw_lower == Lower(raw_text)
             present == Cardinality({i \in 1..Len(entities) :
                            /\ ~IsBlank(entities[i])
                            /\ Contains(raw_lower, Lower(entities[i]))})
             total == Max(1, Len(entities))
         IN IF entities # <<>> /\ PresenceDen * present <= PresenceNum * total
            THEN [ok |-> FALSE, reason |-> "low_presence",
                  present |-> present, total |-> total]
            ELSE Accept

\* EntityValidator.validate(raw_text, entities) for a list (not None).
\* present / max(1, len) < 0.2 is compared exactly as
\* PresenceDen * present < PresenceNum * max(1, len).
EntityValidate(raw_text, entities) ==
    IF Len(entities) > MaxEntities THEN Reject("too_many_entities")
    ELSE IF Len(entities) = 1 /\ Lower(entities[1]) \in NoEntityMarkers THEN Accept
    ELSE LET raw_lower == Lower(raw_text)
             present == Cardinality({i \in 1..Len(entities) :
                            /\ ~IsBlank(entities[i])
                            /\ Contains(raw_lower, Lower(entities[i]))})
             total == Max(1, Len(entities))
         IN IF entities # <<>> /\ PresenceDen * present < PresenceNum * total
            THEN [ok |-> FALSE, reason |-> "low_presence",
                  present |-> present, total |-> total]
            ELSE Accept

\* "don't know"
DontKnowMarker == <<"d", "o", "n", "'", "t", " ", "k", "n", "o", "w">>

\* str.isalpha() on a token of the model's alphabet.
IsAlpha(t) ==
    /\ t # <<>>
    /\ \A i \in 1..Len(t) : t[i] \notin {" ", "\n", ".", "'", ":", "1"}

AnswerMinHits == 2

\* The answer validator as a slip would have it: the marker is looked for
\* in the answer as written.
QAValidate_MarkerAsWritten(answer, contexts) ==
    IF answer = <<>> \/ IsBlank(answer) THEN Reject("empty_answer")
    ELSE LET joined == Lower(Join(contexts, NL))
             tokens == {t \in Range(SplitWs(Lower(answer))) : IsAlpha(t)}
             hits == Cardinality({t \in tokens : Contains(joined, t)})
         IN IF hits < AnswerMinHits /\ ~Contains(answer, DontKnowMarker)
            THEN Reject("ungrounded_answer")
            ELSE Accept

\* The answer validator as a slip would have it: every token of the
\* answer counts, alphabetic or not.
QAValidate_EveryToken(answer, contexts) ==
    IF answer = <<>> \/ IsBlank(answer) THEN Reject("empty_answer")
    ELSE LET joined == Lower(Join(contexts, NL))
             tokens == Range(SplitWs(Lower(answer)))
             hits == Cardinality({t \in tokens : Contains(joined, t)})
         IN IF hits < AnswerMinHits /\ ~Contains(Lower(answer), DontKnowMarker)
            THEN Reject("ungrounded_answer")
            ELSE Accept

\* QAValidator.validate(answer, contexts)
QAValidate(answer, contexts) ==
    IF answer = <<>> \/ IsBlank(answer) THEN Reject("empty_answer")
    ELSE LET joined == Lower(Join(contexts, NL))
             tokens == {t \in Range(SplitWs(Lower(answer))) : IsAlpha(t)}
             hits == Cardinality({t \in tokens : Contains(joined, t)})
         IN IF hits < AnswerMinHits /\ ~Contains(Lower(answer), DontKnowMarker)
            THEN Reject("ungrounded_answer")
            ELSE Accept

(***************************************************************************)
(* Chunking (backend/app/services/chunk_utils.py) and the knowledge base   *)
(* tool (mcp_server/server.py)                                             *)
(***************************************************************************)

\* re.split(r"\n{2,}", text): position i lies in a run of two or more "\n".
InParaBreak(s, i) ==
    /\ s[i] = "\n"
    /\ \/ (i > 1 /\ s[i - 1] = "\n")
       \/ (i < Len(s) /\ s[i + 1] = "\n")

\* paras = [p.strip() for p in re.split(r"\n{2,}", text) if p.strip()]
Paragraphs(text) ==
    LET NonBlank(p) == ~IsBlank(p)
        kept == SelectSeq(Runs(text, {i \in 1..Len(text) : ~InParaBreak(text, i)}),
                          NonBlank)
    IN [n \in 1..Len(kept) |-> Strip(kept[n])]

\* The loop as a slip would have it: the buffer is not flushed when the
\* next paragraph does not fit.
RECURSIVE Pack_DropsBuffer(_, _, _, _)
Pack_DropsBuffer(paras, buf, chunks, max_chars) ==
    IF paras = <<>>
    THEN IF buf # <<>> THEN Append(chunks, buf) ELSE chunks
    ELSE LET p == Head(paras) IN
         IF Len(buf) + Len(p) + 2 <= max_chars
         THEN Pack_DropsBuffer(Tail(paras),
                   IF buf # <<>> THEN buf \o NL \o NL \o p ELSE p,
                   chunks, max_chars)
         ELSE Pack_DropsBuffer(Tail(paras), p, chunks, max_chars)

\* The loop as a slip would have it: the separator is not counted in the
\* size of the packed chunk.
RECURSIVE Pack_SeparatorFree(_, _, _, _)
Pack_SeparatorFree(paras, buf, chunks, max_chars) ==
    IF paras = <<>>
    THEN IF buf # <<>> THEN Append(chunks, buf) ELSE chunks
    ELSE LET p == Head(paras) IN
         IF Len(buf) + Len(p) <= max_chars
         THEN Pack_SeparatorFree(Tail(paras),
                   IF buf # <<>> THEN buf \o NL \o NL \o p ELSE p,
                   chunks, max_chars)
         ELSE Pack_SeparatorFree(Tail(paras), p,
                   IF buf # <<>> THEN Append(chunks, buf) ELSE chunks,
                   max_chars)

\* The loop as a slip would have it: the test is inverted, a paragraph is
\* added to the buffer when it does not fit.
RECURSIVE Pack_Inverted(_, _, _, _)
Pack_Inverted(paras, buf, chunks, max_chars) ==
    IF paras = <<>>
    THEN IF buf # <<>> THEN Append(chunks, buf) ELSE chunks
    ELSE LET p == Head(paras) IN
         IF Len(buf) + Len(p) + 2 > max_chars
         THEN Pack_Inverted(Tail(paras),
                   IF buf # <<>> THEN buf \o NL \o NL \o p ELSE p,
                   chunks, max_chars)
         ELSE Pack_Inverted(Tail(paras), p,
                   IF buf # <<>> THEN Append(chunks, buf) ELSE chunks,
                   max_chars)

\* The loop of split_into_chunks over the remaining paragraphs.
RECURSIVE Pack(_, _, _, _)
Pack(paras, buf, chunks, max_chars) ==
    IF paras = <<>>
    THEN IF buf # <<>> THEN Append(chunks, buf) ELSE chunks
    ELSE LET p == Head(paras) IN
         IF Len(buf) + Len(p) + 2 <= max_chars
         THEN Pack(Tail(paras),
                   IF buf # <<>> THEN buf \o NL \o NL \o p ELSE p,
                   chunks, max_chars)
         ELSE Pack(Tail(paras), p,
                   IF buf # <<>> THEN Append(chunks, buf) ELSE chunks,
                   max_chars)

\* split_into_chunks(text, max_chars)
split_into_chunks(text, max_chars) == Pack(Paragraphs(text), <<>>, <<>>, max_chars)

SectionChunkChars == 3000

IndexChunkChars == 1200

\* text.split("\n\n"): cut at each "\n\n", scanning from the left.
RECURSIVE SplitBlankLine(_)
SplitBlankLine(text) ==
    LET cuts == {i \in 1..(Len(text) - 1) : text[i] = "\n" /\ text[i + 1] = "\n"}
    IN IF cuts = {} THEN <<text>>
       ELSE LET i == CHOOSE c \in cuts : \A d \in cuts : c <= d
            IN <<SubSeq(text, 1, i - 1)>>
                   \o SplitBlankLine(SubSeq(text, i + 2, Len(text)))

\* kb_add: chunks = [c.strip() for c in text.split("\n\n") if c.strip()]
KbChunks(text) ==
    LET NonBlank(p) == ~IsBlank(p)
        kept == SelectSeq(SplitBlankLine(text), NonBlank)
    IN [n \in 1..Len(kept) |-> Strip(kept[n])]

(***************************************************************************)
(* Exceptions (backend/app/services/exceptions.py)                         *)
(***************************************************************************)

\* An exception: its class, str(e), and for a ValidationError the reason
\* code of its details.
Exc(type, msg) == [type |-> type, msg |-> msg, reason |-> ""]

ValidationErr(info) == [type |-> "ValidationError", msg |-> <<>>, reason |-> info.reason]

NoExc == Exc("none", <<>>)

(***************************************************************************)
(* The document store (storage/local_store.py): docs_index.json            *)
(*                                                                         *)
(* The file either parses to a mapping doc id -> record, or (after a write *)
(* that failed part-way through json.dump) does not parse at all: corrupt. *)
(* Record timestamps are left out.                                         *)
(***************************************************************************)

DocIds == {"d1", "d2"}

EmptyDocs == [d \in {} |-> 0]

EmptyStore == [corrupt |-> FALSE, docs |-> EmptyDocs]

CorruptStore == [corrupt |-> TRUE, docs |-> EmptyDocs]

\* A store write either goes through ("ok"), or fails leaving the file as
\* it was ("fail": the open or the load failed), or fails leaving a
\* truncated file ("corrupt"). Each failure carries its own message.
FaultKinds == {"ok", "fail", "corrupt"}

Digits == <<"0", "1", "2", "3", "4", "5", "6", "7", "8", "9">>

ErrMsg(n) == <<"e", Digits[(n % 10) + 1]>>

Fault(kind, n) == [kind |-> kind, msg |-> IF kind = "ok" THEN <<>> ELSE ErrMsg(n)]

NoFault == Fault("ok", 0)

StoreOk(st) == [st |-> st, raised |-> FALSE, exc |-> NoExc]

StoreRaise(st, exc) == [st |-> st, raised |-> TRUE, exc |-> exc]

\* _load_index on an unparseable file.
LoadError == Exc("JSONDecodeError", <<>>)

\* The outcome of a store function that loads the index, changes it to
\* `docs` when `changes` holds and then saves it, under `fault`.
LoadChangeSave(st, changes, docs, fault) ==
    IF st.corrupt THEN StoreRaise(st, LoadError)
    ELSE IF fault.kind = "fail" THEN StoreRaise(st, Exc("OSError", fault.msg))
    ELSE IF ~changes THEN StoreOk(st)
    ELSE IF fault.kind = "corrupt"
         THEN StoreRaise(CorruptStore, Exc("OSError", fault.msg))
    ELSE StoreOk([corrupt |-> FALSE, docs |-> docs])

\* f with d mapped to v
Put(f, d, v) == [x \in DOMAIN f \cup {d} |-> IF x = d THEN v ELSE f[x]]

\* put_document as a slip would have it: the record written without its
\* generated summary.
put_document_no_summary(st, doc_id, raw_text, sections, summary, entities, fault) ==
    LoadChangeSave(st, TRUE,
        Put(st.docs, doc_id,
            [raw_text |-> raw_text, sections |-> sections, summary |-> <<>>,
             entities |-> entities, reviews |-> <<>>, disagreements |-> <<>>]),
        fault)

\* put_document as a slip would have it: the index written holds the new
\* record alone.
put_document_Alone(st, doc_id, raw_text, sections, summary, entities, fault) ==
    LoadChangeSave(st, TRUE,
        Put(EmptyDocs, doc_id,
            [raw_text |-> raw_text, sections |-> sections, summary |-> summary,
             entities |-> entities, reviews |-> <<>>, disagreements |-> <<>>]),
        fault)

\* put_document(doc_id, raw_text, sections, summary, entities)
put_document(st, doc_id, raw_text, sections, summary, entities, fault) ==
    LoadChangeSave(st, TRUE,
        Put(st.docs, doc_id,
            [raw_text |-> raw_text, sections |-> sections, summary |-> summary,
             entities |-> entities, reviews |-> <<>>, disagreements |-> <<>>]),
        fault)

\* get_document(doc_id): found is FALSE for None.
get_document(st, doc_id) ==
    IF st.corrupt THEN [raised |-> TRUE, exc |-> LoadError, found |-> FALSE]
    ELSE [raised |-> FALSE, exc |-> NoExc, found |-> doc_id \in DOMAIN st.docs]

\* update_summary as a slip would have it: an empty summary is taken for
\* "no summary given" and the stored one is kept.
update_summary_KeepsOnEmpty(st, doc_id, summary, has_entities, entities, fault) ==
    IF st.corrupt THEN StoreRaise(st, LoadError)
    ELSE LoadChangeSave(st, doc_id \in DOMAIN st.docs,
        IF doc_id \in DOMAIN st.docs
        THEN [st.docs EXCEPT ![doc_id] =
                 [@ EXCEPT !.summary = IF summary # <<>> THEN summary ELSE @,
                           !.entities = IF has_entities THEN entities ELSE @]]
        ELSE st.docs,
        fault)

\* update_summary(doc_id, summary, entities); has_entities is FALSE for None.
update_summary(st, doc_id, summary, has_entities, entities, fault) ==
    IF st.corrupt THEN StoreRaise(st, LoadError)
    ELSE LoadChangeSave(st, doc_id \in DOMAIN st.docs,
        IF doc_id \in DOMAIN st.docs
        THEN [st.docs EXCEPT ![doc_id] =
                 [@ EXCEPT !.summary = summary,
                           !.entities = IF has_entities THEN entities ELSE @]]
        ELSE st.docs,
        fault)

\* append_review as a slip would have it: a record for an absent document
\* opens an entry for it.
append_review_Upserts(st, doc_id, review_type, payload, fault) ==
    IF st.corrupt THEN StoreRaise(st, LoadError)
    ELSE LoadChangeSave(st, TRUE,
        IF doc_id \in DOMAIN st.docs
        THEN [st.docs EXCEPT ![doc_id].reviews =
                 Append(@, [type |-> review_type, payload |-> payload])]
        ELSE Put(st.docs, doc_id,
                 [raw_text |-> <<>>, sections |-> <<>>, summary |-> <<>>,
                  entities |-> <<>>,
                  reviews |-> <<[type |-> review_type, payload |-> payload]>>,
                  disagreements |-> <<>>]),
        fault)

\* append_review(doc_id, review_type, payload)
append_review(st, doc_id, review_type, payload, fault) ==
    IF st.corrupt THEN StoreRaise(st, LoadError)
    ELSE LoadChangeSave(st, doc_id \in DOMAIN st.docs,
        IF doc_id \in DOMAIN st.docs
        THEN [st.docs EXCEPT ![doc_id].reviews =
                 Append(@, [type |-> review_type, payload |-> payload])]
        ELSE st.docs,
        fault)

\* append_disagreement(doc_id, phase, details)
append_disagreement(st, doc_id, phase, details, fault) ==
    IF st.corrupt THEN StoreRaise(st, LoadError)
    ELSE LoadChangeSave(st, doc_id \in DOMAIN st.docs,
        IF doc_id \in DOMAIN st.docs
        THEN [st.docs EXCEPT ![doc_id].disagreements =
                 Append(@, [phase |-> phase, details |-> details])]
        ELSE st.docs,
        fault)

(***************************************************************************)
(* Snapshot and rollback (backend/app/services/rollback.py)                *)
(***************************************************************************)

NoSnapshot == [present |-> FALSE, doc_id |-> "", summary |-> <<>>, entities |-> <<>>]

\* take_summary_snapshot(doc_id) on a readable store: None when absent.
take_summary_snapshot(st, doc_id) ==
    IF doc_id \in DOMAIN st.docs
    THEN [present |-> TRUE, doc_id |-> doc_id,
          summary |-> st.docs[doc_id].summary,
          entities |-> st.docs[doc_id].entities]
    ELSE NoSnapshot

\* rollback_summary(snapshot)
rollback_summary(st, snapshot, fault) ==
    update_summary(st, snapshot.doc_id, snapshot.summary, TRUE,
                   snapshot.entities, fault)

(***************************************************************************)
(* Inputs: the documents, collaborator replies and user edits explored     *)
(***************************************************************************)

\* "ab cd\n\nef gh"
DocShort == <<"a", "b", " ", "c", "d", "\n", "\n", "e", "f", " ", "g", "h">>

\* Six empty lines, then "ab cd": no text among the first six lines.
DocLateText == Rep("\n", 6) \o <<"a", "b", " ", "c", "d">>

\* A long first line, a blank line and a long third line: more than 600
\* characters among the first six lines.
DocLong ==
    <<"a", "b", " ", "c", "d", " ">> \o Rep("x", 300) \o NL \o SP \o NL
        \o Rep("y", 320)

RawTexts == {DocShort, DocLateText, DocLong}

\* A summary the validator accepts for every document above.
SumOk == <<"A", "b", " ", "c", "d", " ">> \o Rep("z", 36)

SumShort == <<"a", "b", " ", "c", "d">>

SumLowCoverage == Rep("z", 41)

\* What the entity extractor may answer: two entities of the documents
\* (with padding and an empty line), two entities of no document, nothing.
EntTextOk == <<"a", "b", "\n", " ", "c", "d", " ", "\n", "\n">>

EntTextBad == <<"q", "q", "\n", "w", "w">>

EntTextEmpty == <<>>

\* A collaborator call either raises or returns text.
Raised(msg) == [kind |-> "raise", msg |-> msg, text |-> <<>>]

Text(t) == [kind |-> "text", msg |-> <<>>, text |-> t]

\* str(e) of a failed collaborator call: a short message, and one longer
\* than the fallback bound.
TimedOut == <<"t", "i", "m", "e", "o", "u", "t">>

LongMsg == Rep("e", 600)

SummarizerReplies ==
    {Text(SumOk), Text(SumShort), Text(SumLowCoverage)}
        \cup {Raised(TimedOut), Raised(LongMsg)}

EntityReplies ==
    {Text(EntTextOk), Text(EntTextBad), Text(EntTextEmpty)}
        \cup {Raised(TimedOut)}

\* What the parser agent may answer: a failure of the call, text that is
\* not JSON, JSON that is not an object, or an object whose raw_text is
\* absent, empty, whitespace or a document, and whose sections are absent
\* or given.
ParserObject(has_raw, raw_text, sections) ==
    [kind |-> "object", msg |-> <<>>, has_raw |-> has_raw,
     raw_text |-> raw_text, sections |-> sections]

ParserOther(kind, msg) ==
    [kind |-> kind, msg |-> msg, has_raw |-> FALSE, raw_text |-> <<>>,
     sections |-> <<>>]

GivenSections == <<<<"a", "b">>, <<"c", "d">>>>

ParserReplies ==
    {ParserOther("raise", TimedOut),
     ParserOther("text", <<>>), ParserOther("json_other", <<>>)}
        \cup {ParserObject(FALSE, <<>>, <<>>), ParserObject(FALSE, <<>>, GivenSections)}
        \cup {ParserObject(TRUE, r, <<>>) : r \in RawTexts \cup {<<>>, <<" ", "\n">>}}
        \cup {ParserObject(TRUE, DocShort, GivenSections)}

\* What a reviewer agent may answer: a failure of the call, a JSON verdict,
\* or text that is not JSON.
Verdict(v) == [kind |-> "json", msg |-> <<>>, verdict |-> v, text |-> <<>>]

CriticRaised(m) == [kind |-> "raise", msg |-> m, verdict |-> "", text |-> <<>>]

CriticText(t) == [kind |-> "text", msg |-> <<>>, verdict |-> "", text |-> t]

Oops == <<"o", "o", "p", "s">>

ReviewerReplies ==
    {Verdict("pass"), Verdict("fail"), CriticText(Oops), CriticRaised(TimedOut)}

SecurityReplies == {Verdict("pass"), CriticRaised(TimedOut)}

\* The performance analyst and the arbiter answer JSON without a verdict.
PlainReplies == {Verdict(""), CriticRaised(TimedOut)}

KbReplies == {Text(<<"o", "k">>), Raised(TimedOut)}

(***************************************************************************)
(* Workflows (agents/workflows.py, backend/app/services/critic_workflows)  *)
(***************************************************************************)

Returned(v) == [raised |-> FALSE, exc |-> NoExc, value |-> v]

Raises(e) == [raised |-> TRUE, exc |-> e, value |-> <<>>]

\* DocumentSummarizationWorkflow.run(raw_text), given the agent's reply.
DocumentSummarizationRun(raw_text, reply) ==
    IF reply.kind = "raise" THEN Raises(Exc("SummarizationError", reply.msg))
    ELSE LET info == SummaryValidate(raw_text, reply.text)
         IN IF ~info.ok THEN Raises(ValidationErr(info)) ELSE Returned(reply.text)

\* EntityExtractionWorkflow.run(raw_text), given the agent's reply.
EntityExtractionRun(raw_text, reply) ==
    IF reply.kind = "raise" THEN Raises(Exc("EntityExtractionError", reply.msg))
    ELSE LET NonBlank(e) == ~IsBlank(e)
             lines == SelectSeq(SplitLines(reply.text), NonBlank)
             entities == [n \in 1..Len(lines) |-> Strip(lines[n])]
             info == EntityValidate(raw_text, entities)
         IN IF ~info.ok THEN Raises(ValidationErr(info)) ELSE Returned(entities)

\* QAWorkflow.run(question, contexts), given the agent's reply; the value
\* returned is the answer (the contexts are handed back unchanged).
QARun(contexts, reply) ==
    IF reply.kind = "raise" THEN Raises(Exc("QAError", reply.msg))
    ELSE LET info == QAValidate(reply.text, contexts)
         IN IF ~info.ok THEN Raises(ValidationErr(info)) ELSE Returned(reply.text)

\* A reviewer's verdict as stored: the parsed JSON, or the parse-failure
\* wrapper {"verdict": "fail", "parse_error": True, "raw": s[:2000]}.
RawKeep == 2000

NoPayload == [verdict |-> "", parse_error |-> FALSE, raw |-> <<>>]

\* Lines 9-14 with the wrapper of line 14 missing its verdict: a reply
\* that is not JSON is kept as raw text but counts as no verdict at all.
_safe_json_NoVerdict(reply) ==
    IF reply.kind = "json"
    THEN [verdict |-> reply.verdict, parse_error |-> FALSE, raw |-> <<>>]
    ELSE [verdict |-> "", parse_error |-> TRUE, raw |-> Take(reply.text, RawKeep)]

_safe_json(reply) ==
    IF reply.kind = "json"
    THEN [verdict |-> reply.verdict, parse_error |-> FALSE, raw |-> <<>>]
    ELSE [verdict |-> "fail", parse_error |-> TRUE, raw |-> Take(reply.text, RawKeep)]

\* {"error": str(e)}, the payload of a kb_index_error review
ErrorPayload(msg) == [verdict |-> "", parse_error |-> FALSE, raw |-> msg]

(***************************************************************************)
(* ingest_document: the parse step and the fallbacks                       *)
(***************************************************************************)

\* Lines 100-109 as a slip would have it: raw_text tested without strip().
ParseReply_NoStrip(reply) ==
    IF reply.kind # "object"
    THEN [ok |-> FALSE, raw_text |-> <<>>, sections |-> <<>>]
    ELSE LET raw_text == IF reply.has_raw THEN reply.raw_text ELSE <<>>
             sections == IF reply.sections # <<>> THEN reply.sections
                         ELSE split_into_chunks(raw_text, SectionChunkChars)
         IN [ok |-> raw_text # <<>>, raw_text |-> raw_text, sections |-> sections]

\* Lines 100-109: the parser's last message decoded; ok is FALSE where the
\* code raises ParsingError.
ParseReply(reply) ==
    IF reply.kind # "object"
    THEN [ok |-> FALSE, raw_text |-> <<>>, sections |-> <<>>]
    ELSE LET raw_text == IF reply.has_raw THEN reply.raw_text ELSE <<>>
             sections == IF reply.sections # <<>> THEN reply.sections
                         ELSE split_into_chunks(raw_text, SectionChunkChars)
         IN [ok |-> ~IsBlank(raw_text), raw_text |-> raw_text, sections |-> sections]

FallbackLines == 6

FallbackChars == 600

ValidationPlaceholder ==
    <<"S", "u", "m", "m", "a", "r", "y", " ", "u", "n", "a", "v", "a",
      "i", "l", "a", "b", "l", "e", " ", "d", "u", "e", " ", "t", "o",
      " ", "v", "a", "l", "i", "d", "a", "t", "i", "o", "n", ".">>

\* "Summary unavailable: "
GenericPlaceholderPrefix ==
    <<"S", "u", "m", "m", "a", "r", "y", " ", "u", "n", "a", "v", "a",
      "i", "l", "a", "b", "l", "e", ":", " ">>

\* Line 120 as a slip would have it: the blank lines kept.
FallbackHead_BlankKept(raw_text) ==
    LET lines == SplitLines(raw_text)
    IN Join(SubSeq(lines, 1, Min(FallbackLines, Len(lines))), NL)

\* head = "\n".join([s for s in (raw_text.splitlines()[:6]) if s.strip()])
FallbackHead(raw_text) ==
    LET NonBlank(l) == ~IsBlank(l)
        lines == SplitLines(raw_text)
    IN Join(SelectSeq(SubSeq(lines, 1, Min(FallbackLines, Len(lines))), NonBlank), NL)

\* Lines 121 and 125 as a slip would have them: the slice [:600] left out.
FallbackSummary_Whole(raw_text, placeholder) ==
    LET head == FallbackHead(raw_text)
    IN IF head # <<>> THEN head ELSE placeholder

\* (head or placeholder)[:600]
FallbackSummary(raw_text, placeholder) ==
    LET head == FallbackHead(raw_text)
    IN Take(IF head # <<>> THEN head ELSE placeholder, FallbackChars)

\* Lines 116-125: the summary ingestion goes on with.
IngestSummary(raw_text, reply) ==
    LET r == DocumentSummarizationRun(raw_text, reply)
    IN IF ~r.raised THEN r.value
       ELSE IF r.exc.type = "ValidationError"
            THEN FallbackSummary(raw_text, ValidationPlaceholder)
       ELSE FallbackSummary(raw_text, GenericPlaceholderPrefix \o r.exc.msg)

\* ["No entities found."]
SentinelEntities == <<SentinelText>>

\* Lines 130-136 as a slip would have it: no entities on failure.
IngestEntities_Empty(raw_text, reply) ==
    LET r == EntityExtractionRun(raw_text, reply)
    IN IF ~r.raised THEN r.value ELSE <<>>

\* Lines 130-136: the entities ingestion goes on with.
IngestEntities(raw_text, reply) ==
    LET r == EntityExtractionRun(raw_text, reply)
    IN IF ~r.raised THEN r.value ELSE SentinelEntities

\* How a validated stage ended: with the validated output, with a validator
\* rejection, or with another failure.
StagePath(r) ==
    IF ~r.raised THEN "valid"
    ELSE IF r.exc.type = "ValidationError" THEN "rejected" ELSE "failed"

(***************************************************************************)
(* State                                                                   *)
(***************************************************************************)

VARIABLES
    store,      \* docs_index.json
    kb,         \* kb_store.json: doc id -> chunks
    calls,      \* the calls in flight, by slot: locals, position, outcome
    started,    \* the number of calls started so far
    budget,     \* how many more inputs may differ from the plain run
    index,      \* kb_store.json as the tool server reads and writes it
    mcp,        \* the tool calls the server holds, and the one it served last
    probe       \* one application of a pure function: its inputs, its result

vars == <<store, kb, calls, started, budget, index, mcp, probe>>

\* The orchestrator's part of the state, and the rest.
core == <<store, kb, calls, started, budget>>

aside == <<index, mcp, probe>>

\* kb_store.json does not exist (line 31 reads it as {"docs": {}}).
NoIndex == <<>>

\* The server holds no call and has served none.
NoTool == [tool |-> "none"]

\* `was` and `source` record the chunks a document held before the last
\* kb_add and the text each document was last indexed from; `indexed` lists
\* the documents by the time of their last kb_add; `seen` is the corpus the
\* last kb_search built. The code does not read them.
NoCalls ==
    [inbox |-> {}, last |-> NoTool, out |-> [kind |-> "none"],
     was |-> <<>>, source |-> [d \in {} |-> <<>>], indexed |-> <<>>,
     seen |-> <<>>]

\* No function is being applied.
NoProbe == [fn |-> "none"]

\* The calls a behaviour makes, and the number of collaborator replies,
\* store faults and so on that may differ from the plain run (the parser
\* returns DocShort, every generated artifact validates, every reviewer
\* passes, no call and no write fails).
MaxCalls == 1

MaxVariations == 2

Slots == {1}

\* A slot with no call in it. The fields from `parser_reply` on record how the
\* call went; the code does not read them.
Idle ==
    [op |-> "idle", pc |-> "idle", doc |-> "",
     raw_text |-> <<>>, sections |-> <<>>, summary |-> <<>>, entities |-> <<>>,
     snapshot |-> NoSnapshot, bias |-> NoPayload, comp |-> NoPayload,
     contexts |-> <<>>, answer |-> <<>>,
     outcome |-> "none", exc |-> NoExc,
     has_entities |-> FALSE, parser_reply |-> ParserOther("", <<>>),
     sum_path |-> "", sum_msg |-> <<>>, ent_path |-> "",
     qa_path |-> "",
     writes |-> 0, rollbacks |-> 0, rb_snapshot |-> NoSnapshot,
     w_exc |-> NoExc, rb_exc |-> NoExc, log |-> <<>>,
     store0 |-> EmptyStore, kb0 |-> EmptyDocs]

Ev(ev, what) == [ev |-> ev, what |-> what]

\* A document as a plain ingestion of DocShort leaves it, with the one
\* review a later question left on it.
PlainEntities == <<<<"a", "b">>, <<"c", "d">>>>

PlainDoc ==
    [raw_text |-> DocShort, sections |-> split_into_chunks(DocShort, SectionChunkChars),
     summary |-> SumOk, entities |-> PlainEntities,
     reviews |-> <<[type |-> "perf_qa", payload |-> NoPayload]>>,
     disagreements |-> <<>>]

Init ==
    /\ store \in {EmptyStore, CorruptStore,
                  [corrupt |-> FALSE, docs |-> Put(EmptyDocs, "d2", PlainDoc)]}
    /\ kb = IF "d2" \in DOMAIN store.docs
            THEN Put(EmptyDocs, "d2",
                     KbChunks(Join(split_into_chunks(DocShort, IndexChunkChars), NL \o NL)))
            ELSE EmptyDocs
    /\ calls = [c \in Slots |-> Idle]
    /\ started = 0
    /\ budget = MaxVariations
    /\ index = NoIndex /\ mcp = NoCalls /\ probe = NoProbe

Cost(plain) == IF plain THEN 0 ELSE 1

Upd(c, rec) == calls' = [calls EXCEPT ![c] = rec]

Ends(rec, outcome, exc) == [rec EXCEPT !.pc = "done", !.outcome = outcome, !.exc = exc]

(***************************************************************************)
(* apply_user_edit (orchestrator.py lines 259-290): one synchronous step   *)
(***************************************************************************)

SummaryEdits == {<<>>, SumOk, SumShort}

EntityEdits == {PlainEntities, <<<<"q", "q">>>>}

\* The except branch as a slip would have it: the rollback's own failure
\* swallowed, the write's error raised.
EditWriteFailed_SwallowRollback(me, w, fk2, n) ==
    IF me.snapshot.present
    THEN LET rb == rollback_summary(w.st, me.snapshot, Fault(fk2, n))
         IN [st |-> rb.st,
             rec |-> Ends([me EXCEPT !.writes = 2, !.rollbacks = 1,
                                     !.rb_snapshot = me.snapshot,
                                     !.w_exc = w.exc, !.rb_exc = rb.exc],
                          "raised", w.exc)]
    ELSE [st |-> w.st,
          rec |-> Ends([me EXCEPT !.writes = 1, !.w_exc = w.exc], "raised", w.exc)]

\* The except branch as a slip would have it: what is written back is the
\* edit's summary, not the snapshot's.
EditWriteFailed_RollsForward(me, w, fk2, n) ==
    IF me.snapshot.present
    THEN LET given == [me.snapshot EXCEPT !.summary = me.summary]
             rb == rollback_summary(w.st, given, Fault(fk2, n))
         IN [st |-> rb.st,
             rec |-> Ends([me EXCEPT !.writes = 2, !.rollbacks = 1,
                                     !.rb_snapshot = given,
                                     !.w_exc = w.exc, !.rb_exc = rb.exc],
                          "raised", IF rb.raised THEN rb.exc ELSE w.exc)]
    ELSE [st |-> w.st,
          rec |-> Ends([me EXCEPT !.writes = 1, !.w_exc = w.exc], "raised", w.exc)]

\* Lines 287-290: the write raised w.exc; roll back if there is a snapshot,
\* then re-raise. A rollback that raises replaces the error.
EditWriteFailed(me, w, fk2, n) ==
    IF me.snapshot.present
    THEN LET rb == rollback_summary(w.st, me.snapshot, Fault(fk2, n))
         IN [st |-> rb.st,
             rec |-> Ends([me EXCEPT !.writes = 2, !.rollbacks = 1,
                                     !.rb_snapshot = me.snapshot,
                                     !.w_exc = w.exc, !.rb_exc = rb.exc],
                          "raised", IF rb.raised THEN rb.exc ELSE w.exc)]
    ELSE [st |-> w.st,
          rec |-> Ends([me EXCEPT !.writes = 1, !.w_exc = w.exc], "raised", w.exc)]

\* Lines 272-282 as a slip would have it: the entities are not validated.
EditRejection_SummaryOnly(raw_text, summary, has_entities, entities) ==
    IF summary # <<>> /\ ~SummaryValidate(raw_text, summary).ok
    THEN Raises(ValidationErr(SummaryValidate(raw_text, summary)))
    ELSE Returned(<<>>)

\* Lines 272-282: the validation of the edit.
EditRejection(raw_text, summary, has_entities, entities) ==
    IF summary # <<>> /\ ~SummaryValidate(raw_text, summary).ok
    THEN Raises(ValidationErr(SummaryValidate(raw_text, summary)))
    ELSE IF has_entities /\ ~EntityValidate(raw_text, entities).ok
    THEN Raises(ValidationErr(EntityValidate(raw_text, entities)))
    ELSE Returned(<<>>)

ApplyUserEdit(c, doc_id, summary, has_entities, entities, fk1, fk2) ==
    /\ calls[c].pc = "idle"
    /\ started < MaxCalls
    /\ budget >= Cost(fk1 = "ok") + Cost(fk2 = "ok")
    /\ started' = started + 1
    /\ kb' = kb
    /\ LET me0 == [Idle EXCEPT !.op = "edit", !.doc = doc_id, !.summary = summary,
                               !.has_entities = has_entities,
                               !.entities = entities, !.store0 = store, !.kb0 = kb]
       IN IF store.corrupt
          THEN \* take_summary_snapshot's read raises
               /\ fk1 = "ok" /\ fk2 = "ok"
               /\ Upd(c, Ends(me0, "raised", LoadError))
               /\ UNCHANGED <<store, budget>>
          ELSE LET me == [me0 EXCEPT !.snapshot = take_summary_snapshot(store, doc_id)]
                   raw_text == IF doc_id \in DOMAIN store.docs
                               THEN store.docs[doc_id].raw_text ELSE <<>>
                   v == EditRejection(raw_text, summary, has_entities, entities)
               IN IF v.raised
                  THEN /\ fk1 = "ok" /\ fk2 = "ok"
                       /\ Upd(c, Ends(me, "raised", v.exc))
                       /\ UNCHANGED <<store, budget>>
                  ELSE LET w == update_summary(store, doc_id, summary, has_entities,
                                               entities, Fault(fk1, budget))
                       IN IF ~w.raised
                          THEN /\ fk2 = "ok"
                               /\ store' = w.st
                               /\ budget' = budget - Cost(fk1 = "ok")
                               /\ Upd(c, Ends([me EXCEPT !.writes = 1], "returned", NoExc))
                          ELSE LET r == EditWriteFailed(me, w, fk2, budget - 1)
                               IN /\ (~me.snapshot.present => fk2 = "ok")
                                  /\ store' = r.st
                                  /\ budget' = budget - Cost(fk1 = "ok") - Cost(fk2 = "ok")
                                  /\ Upd(c, r.rec)

\* The caller has the result; the slot is free for the next call.
Finish(c) ==
    /\ calls[c].pc = "done"
    /\ Upd(c, Idle)
    /\ UNCHANGED <<store, kb, started, budget>>

(***************************************************************************)
(* ingest_document (orchestrator.py lines 63-188): one step per await      *)
(***************************************************************************)

\* The call is made; it waits for the parser agent (line 99).
StartIngest(c, doc_id) ==
    /\ calls[c].pc = "idle"
    /\ started < MaxCalls
    /\ started' = started + 1
    /\ Upd(c, [Idle EXCEPT !.op = "ingest", !.pc = "parse", !.doc = doc_id,
                           !.store0 = store, !.kb0 = kb])
    /\ UNCHANGED <<store, kb, budget>>

PlainParse == ParserObject(TRUE, DocShort, <<>>)

\* Line 99: the await stands before the try block, so a failure of the
\* parser call leaves ingest_document as it is.
ParserCallError(reply) == Exc("RuntimeError", reply.msg)

\* Lines 99-112: the parser's reply arrives; on success the snapshot is
\* taken and the summarizer is called.
IngestParsed(c, reply) ==
    /\ calls[c].op = "ingest" /\ calls[c].pc = "parse"
    /\ budget >= Cost(reply = PlainParse)
    /\ budget' = budget - Cost(reply = PlainParse)
    /\ LET me == calls[c]
           p == ParseReply(reply)
       IN IF reply.kind = "raise"
          THEN Upd(c, Ends([me EXCEPT !.parser_reply = reply], "raised", ParserCallError(reply)))
          ELSE IF ~p.ok
          THEN Upd(c, Ends([me EXCEPT !.parser_reply = reply], "raised",
                           Exc("ParsingError", <<>>)))
          ELSE IF store.corrupt
          THEN \* take_summary_snapshot's read raises
               Upd(c, Ends([me EXCEPT !.parser_reply = reply, !.raw_text = p.raw_text,
                                      !.sections = p.sections], "raised", LoadError))
          ELSE Upd(c, [me EXCEPT !.parser_reply = reply, !.pc = "summarize",
                                 !.raw_text = p.raw_text, !.sections = p.sections,
                                 !.snapshot = take_summary_snapshot(store, me.doc)])
    /\ UNCHANGED <<store, kb, started>>

\* Lines 116-126: the summarizer's reply arrives.
IngestSummarized(c, reply) ==
    /\ calls[c].op = "ingest" /\ calls[c].pc = "summarize"
    /\ budget >= Cost(reply = Text(SumOk))
    /\ budget' = budget - Cost(reply = Text(SumOk))
    /\ LET me == calls[c]
       IN Upd(c, [me EXCEPT
              !.pc = "entities",
              !.summary = IngestSummary(me.raw_text, reply),
              !.sum_path = StagePath(DocumentSummarizationRun(me.raw_text, reply)),
              !.sum_msg = reply.msg])
    /\ UNCHANGED <<store, kb, started>>

\* Lines 130-137: the entity extractor's reply arrives.
IngestEntitiesDone(c, reply) ==
    /\ calls[c].op = "ingest" /\ calls[c].pc = "entities"
    /\ budget >= Cost(reply = Text(EntTextOk))
    /\ budget' = budget - Cost(reply = Text(EntTextOk))
    /\ LET me == calls[c]
       IN Upd(c, [me EXCEPT
              !.pc = "bias",
              !.entities = IngestEntities(me.raw_text, reply),
              !.ent_path = StagePath(EntityExtractionRun(me.raw_text, reply))])
    /\ UNCHANGED <<store, kb, started>>

\* The reviewers of the summary in the order of lines 141-166, the type of
\* the review each one leaves, and the reply that is the plain run's.
ReviewType(at) ==
    CASE at = "bias" -> "bias_summary"
      [] at = "comp" -> "completeness_summary"
      [] at = "sec" -> "security_summary"
      [] at = "perf_sum" -> "perf_summarization"
      [] at = "perf_ent" -> "perf_entity_extraction"

PlainReply(at) == IF at \in {"bias", "comp", "sec"} THEN Verdict("pass") ELSE Verdict("")

\* Line 153: the arbiter is called when bias passes and completeness fails.
IngestDisagree(bias, comp) == bias.verdict = "pass" /\ comp.verdict = "fail"

\* Where the block of lines 140-169 goes after the reviewer at `at` raised:
\* one try covers the block, so the rest of it is skipped.
AfterReviewerRaised(at) == "kb_add"

\* The block as a slip would have it: after the last performance note the
\* call goes back to the summarizer.
AfterReviewer_Again(at, bias, comp) ==
    CASE at = "bias" -> "comp"
      [] at = "comp" -> "sec"
      [] at = "sec" -> IF IngestDisagree(bias, comp) THEN "arb" ELSE "perf_sum"
      [] at = "perf_sum" -> "perf_ent"
      [] at = "perf_ent" -> "summarize"

\* Where the block goes after the reviewer at `at` returned and its review
\* was appended.
AfterReviewer(at, bias, comp) ==
    CASE at = "bias" -> "comp"
      [] at = "comp" -> "sec"
      [] at = "sec" -> IF IngestDisagree(bias, comp) THEN "arb" ELSE "perf_sum"
      [] at = "perf_sum" -> "perf_ent"
      [] at = "perf_ent" -> "kb_add"

\* The step of lines 167-169 as a slip would have it: the failure leaves
\* the call.
ReviewFailure_Propagates(me, at, exc) ==
    Ends([me EXCEPT !.log = Append(@, Ev("raise", at))], "raised", exc)

\* Lines 167-169: a failure inside the block is dropped.
ReviewFailure(me, at, exc) ==
    [me EXCEPT !.pc = AfterReviewerRaised(at), !.log = Append(@, Ev("raise", at))]

\* Lines 141-148 and 158-166: the reply of the reviewer at `at` arrives and
\* its review is appended.
IngestReviewed(c, at, reply, fk) ==
    /\ calls[c].op = "ingest" /\ calls[c].pc = at
    /\ budget >= Cost(reply = PlainReply(at)) + Cost(fk = "ok")
    /\ budget' = budget - Cost(reply = PlainReply(at)) - Cost(fk = "ok")
    /\ LET me == calls[c]
           payload == _safe_json(reply)
           r == append_review(store, me.doc, ReviewType(at), payload, Fault(fk, budget))
           bias == IF at = "bias" THEN payload ELSE me.bias
           comp == IF at = "comp" THEN payload ELSE me.comp
       IN IF reply.kind = "raise"
          THEN /\ fk = "ok"
               /\ Upd(c, ReviewFailure(me, at, Exc("RuntimeError", reply.msg)))
               /\ store' = store
          ELSE IF r.raised
          THEN /\ Upd(c, ReviewFailure([me EXCEPT !.bias = bias, !.comp = comp,
                                                  !.writes = @ + 1,
                                                  !.log = Append(@, Ev("return", at))],
                                       ReviewType(at), r.exc))
               /\ store' = r.st
          ELSE /\ Upd(c, [me EXCEPT !.bias = bias, !.comp = comp, !.writes = @ + 1,
                                    !.pc = AfterReviewer(at, bias, comp),
                                    !.log = Append(Append(@, Ev("return", at)),
                                                   Ev("append", ReviewType(at)))])
               /\ store' = r.st
    /\ UNCHANGED <<kb, started>>

\* Lines 154-155: the arbiter's reply arrives and the disagreement is
\* appended.
IngestArbitrated(c, reply, fk) ==
    /\ calls[c].op = "ingest" /\ calls[c].pc = "arb"
    /\ budget >= Cost(reply = Verdict("")) + Cost(fk = "ok")
    /\ budget' = budget - Cost(reply = Verdict("")) - Cost(fk = "ok")
    /\ LET me == calls[c]
           r == append_disagreement(store, me.doc, "summary_review",
                                    _safe_json(reply), Fault(fk, budget))
       IN IF reply.kind = "raise"
          THEN /\ fk = "ok"
               /\ Upd(c, ReviewFailure(me, "arb", Exc("RuntimeError", reply.msg)))
               /\ store' = store
          ELSE IF r.raised
          THEN /\ Upd(c, ReviewFailure([me EXCEPT !.writes = @ + 1,
                                                  !.log = Append(@, Ev("return", "arb"))],
                                       "summary_review", r.exc))
               /\ store' = r.st
          ELSE /\ Upd(c, [me EXCEPT !.writes = @ + 1, !.pc = "perf_sum",
                                    !.log = Append(Append(@, Ev("return", "arb")),
                                                   Ev("append", "summary_review"))])
               /\ store' = r.st
    /\ UNCHANGED <<kb, started>>

\* Lines 172-188: the reply of kb_add arrives; a failure is recorded as a
\* review, then the document is put and the call returns.
IngestIndexed(c, reply, fk1, fk2) ==
    /\ calls[c].op = "ingest" /\ calls[c].pc = "kb_add"
    /\ budget >= Cost(reply.kind = "text") + Cost(fk1 = "ok") + Cost(fk2 = "ok")
    /\ budget' = budget - Cost(reply.kind = "text") - Cost(fk1 = "ok") - Cost(fk2 = "ok")
    /\ (reply.kind = "text" => fk1 = "ok")
    /\ LET me == calls[c]
           chunks == split_into_chunks(me.raw_text, IndexChunkChars)
           noted == IF reply.kind = "raise"
                    THEN append_review(store, me.doc, "kb_index_error",
                                       ErrorPayload(reply.msg), Fault(fk1, budget))
                    ELSE StoreOk(store)
           me1 == IF reply.kind = "raise"
                  THEN [me EXCEPT !.writes = @ + 1,
                                  !.log = Append(@, Ev("raise", "kb_add"))]
                  ELSE me
           w == put_document(noted.st, me.doc, me.raw_text, me.sections, me.summary,
                             me.entities, Fault(fk2, budget - 1))
       IN /\ kb' = IF reply.kind = "text"
                   THEN Put(kb, me.doc, KbChunks(Join(chunks, NL \o NL)))
                   ELSE kb
          /\ IF noted.raised
             THEN /\ fk2 = "ok"
                  /\ store' = noted.st
                  /\ Upd(c, Ends(me1, "raised", noted.exc))
             ELSE /\ store' = w.st
                  /\ Upd(c, Ends([me1 EXCEPT !.writes = @ + 1,
                                             !.log = Append(@, Ev("put", me.doc))],
                                 IF w.raised THEN "raised" ELSE "returned", w.exc))
    /\ UNCHANGED started

(***************************************************************************)
(* answer_question (orchestrator.py lines 191-256): one step per await     *)
(***************************************************************************)

\* doc_id = None
NoDoc == ""

QaSections == 5

\* "I don't know from the provided documents."
DontKnowAnswer ==
    <<"I", " ", "d", "o", "n", "'", "t", " ", "k", "n", "o", "w", " ",
      "f", "r", "o", "m", " ", "t", "h", "e", " ", "p", "r", "o", "v",
      "i", "d", "e", "d", " ", "d", "o", "c", "u", "m", "e", "n", "t",
      "s", ".">>

\* What the QA agent may answer to the search task, and to the question.
Retrieved == <<"e", "f", " ", "g", "h">>

SearchReplies == {Text(Retrieved), Raised(TimedOut)}

AnswerGrounded == <<"e", "f", " ", "g", "h", " ", "1">>

AnswerUngrounded == <<"q", "q", " ", "w", "w">>

AnswerReplies ==
    {Text(AnswerGrounded), Text(AnswerUngrounded), Text(<<>>), Raised(TimedOut)}

\* Lines 199-204: the call is made; with a doc id its sections are read;
\* then it waits for the QA agent's search.
StartQA(c, doc_id) ==
    /\ calls[c].pc = "idle"
    /\ started < MaxCalls
    /\ started' = started + 1
    /\ LET me == [Idle EXCEPT !.op = "qa", !.doc = doc_id, !.store0 = store, !.kb0 = kb]
       IN IF doc_id # NoDoc /\ store.corrupt
          THEN Upd(c, Ends(me, "raised", LoadError))
          ELSE Upd(c, [me EXCEPT
                   !.pc = "qa_search",
                   !.sections = IF doc_id # NoDoc /\ doc_id \in DOMAIN store.docs
                                THEN store.docs[doc_id].sections ELSE <<>>])
    /\ UNCHANGED <<store, kb, budget>>

\* Lines 202-211: the search reply arrives; the contexts are built.
QaSearched(c, reply) ==
    /\ calls[c].op = "qa" /\ calls[c].pc = "qa_search"
    /\ budget >= Cost(reply.kind = "text")
    /\ budget' = budget - Cost(reply.kind = "text")
    /\ LET me == calls[c]
       IN IF reply.kind = "raise"
          THEN Upd(c, Ends(me, "raised", Exc("RuntimeError", reply.msg)))
          ELSE Upd(c, [me EXCEPT
                   !.pc = "qa_answer",
                   !.contexts = IF me.doc # NoDoc
                                THEN Take(me.sections, QaSections) \o <<reply.text>>
                                ELSE <<reply.text>>])
    /\ UNCHANGED <<store, kb, started>>

\* Lines 215-225: the answer arrives and is validated.
QaAnswered(c, reply, fk) ==
    /\ calls[c].op = "qa" /\ calls[c].pc = "qa_answer"
    /\ budget >= Cost(reply = Text(AnswerGrounded)) + Cost(fk = "ok")
    /\ budget' = budget - Cost(reply = Text(AnswerGrounded)) - Cost(fk = "ok")
    /\ LET me == calls[c]
           r == QARun(me.contexts, reply)
           note == append_review(store, me.doc, "qa_validator_note",
                                 [verdict |-> r.exc.reason, parse_error |-> FALSE,
                                  raw |-> <<>>],
                                 Fault(fk, budget))
       IN IF ~r.raised
          THEN /\ fk = "ok"
               /\ store' = store
               /\ Upd(c, [me EXCEPT !.pc = "qa_bias", !.answer = r.value,
                                    !.qa_path = "valid"])
          ELSE IF r.exc.type # "ValidationError"
          THEN /\ fk = "ok"
               /\ store' = store
               /\ Upd(c, Ends([me EXCEPT !.qa_path = "failed"], "raised", r.exc))
          ELSE IF me.doc = NoDoc
          THEN /\ fk = "ok"
               /\ store' = store
               /\ Upd(c, [me EXCEPT !.pc = "qa_bias", !.answer = DontKnowAnswer,
                                    !.qa_path = "rejected"])
          ELSE /\ store' = note.st
               /\ IF note.raised
                  THEN Upd(c, Ends([me EXCEPT !.answer = DontKnowAnswer,
                                              !.qa_path = "rejected",
                                              !.writes = @ + 1], "raised", note.exc))
                  ELSE Upd(c, [me EXCEPT !.pc = "qa_bias", !.answer = DontKnowAnswer,
                                         !.qa_path = "rejected", !.writes = @ + 1,
                                         !.log = Append(@, Ev("append", "qa_validator_note"))])
    /\ UNCHANGED <<kb, started>>

\* Line 242 as a slip would have it: only a passing bias review against a
\* failing completeness review counts, as on line 153.
QaDisagree_OneWay(bias, comp) ==
    bias.verdict = "pass" /\ comp.verdict = "fail"

\* Line 242: the arbiter is called when one of bias and completeness passes
\* and the other fails.
QaDisagree(bias, comp) ==
    \/ bias.verdict = "pass" /\ comp.verdict = "fail"
    \/ bias.verdict = "fail" /\ comp.verdict = "pass"

\* Lines 230-231: the reply of the bias or completeness reviewer arrives.
QaReviewed(c, at, reply) ==
    /\ calls[c].op = "qa" /\ calls[c].pc = at
    /\ budget >= Cost(reply = Verdict("pass"))
    /\ budget' = budget - Cost(reply = Verdict("pass"))
    /\ LET me == calls[c]
           payload == _safe_json(reply)
       IN IF reply.kind = "raise"
          THEN Upd(c, [me EXCEPT !.pc = "qa_perf", !.log = Append(@, Ev("raise", at))])
          ELSE Upd(c, [me EXCEPT
                   !.pc = IF at = "qa_bias" THEN "qa_comp" ELSE "qa_sec",
                   !.bias = IF at = "qa_bias" THEN payload ELSE @,
                   !.comp = IF at = "qa_comp" THEN payload ELSE @,
                   !.log = Append(@, Ev("return", at))])
    /\ UNCHANGED <<store, kb, started>>

\* Lines 235-237: the three reviews appended in turn; the append at
\* position `failing` (none for 0) meets `fault`, which ends the block.
QaAppends(st, doc_id, bias, comp, sec, failing, fault) ==
    LET F(k) == IF failing = k THEN fault ELSE NoFault
        a1 == append_review(st, doc_id, "bias_qa", bias, F(1))
        a2 == append_review(a1.st, doc_id, "completeness_qa", comp, F(2))
        a3 == append_review(a2.st, doc_id, "security_qa", sec, F(3))
    IN IF a1.raised THEN [st |-> a1.st, raised |-> TRUE, done |-> 0]
       ELSE IF a2.raised THEN [st |-> a2.st, raised |-> TRUE, done |-> 1]
       ELSE [st |-> a3.st, raised |-> a3.raised, done |-> IF a3.raised THEN 2 ELSE 3]

QaReviewTypes == <<"bias_qa", "completeness_qa", "security_qa">>

\* Lines 232-244: the security reviewer's reply arrives; with a doc id the
\* three reviews are appended and the verdicts compared.
QaSecured(c, reply, failing, fk) ==
    /\ calls[c].op = "qa" /\ calls[c].pc = "qa_sec"
    /\ budget >= Cost(reply = Verdict("pass")) + Cost(fk = "ok")
    /\ budget' = budget - Cost(reply = Verdict("pass")) - Cost(fk = "ok")
    /\ (fk = "ok") = (failing = 0)
    /\ LET me == calls[c]
           a == QaAppends(store, me.doc, me.bias, me.comp, _safe_json(reply),
                          failing, Fault(fk, budget))
           appended == [n \in 1..a.done |-> Ev("append", QaReviewTypes[n])]
       IN IF reply.kind = "raise"
          THEN /\ failing = 0
               /\ store' = store
               /\ Upd(c, [me EXCEPT !.pc = "qa_perf",
                                    !.log = Append(@, Ev("raise", "qa_sec"))])
          ELSE IF me.doc = NoDoc
          THEN /\ failing = 0
               /\ store' = store
               /\ Upd(c, [me EXCEPT !.pc = "qa_perf",
                                    !.log = Append(@, Ev("return", "qa_sec"))])
          ELSE /\ store' = a.st
               /\ Upd(c, [me EXCEPT
                      !.pc = IF ~a.raised /\ QaDisagree(me.bias, me.comp)
                             THEN "qa_arb" ELSE "qa_perf",
                      !.writes = @ + a.done + (IF a.raised THEN 1 ELSE 0),
                      !.log = Append(@, Ev("return", "qa_sec")) \o appended
                                  \o (IF a.raised THEN <<Ev("raise", "append")>> ELSE <<>>)])
    /\ UNCHANGED <<kb, started>>

\* Lines 243-244: the arbiter's reply arrives and the disagreement is
\* appended.
QaArbitrated(c, reply, fk) ==
    /\ calls[c].op = "qa" /\ calls[c].pc = "qa_arb"
    /\ budget >= Cost(reply = Verdict("")) + Cost(fk = "ok")
    /\ budget' = budget - Cost(reply = Verdict("")) - Cost(fk = "ok")
    /\ LET me == calls[c]
           r == append_disagreement(store, me.doc, "qa_review", _safe_json(reply),
                                    Fault(fk, budget))
       IN IF reply.kind = "raise"
          THEN /\ fk = "ok"
               /\ store' = store
               /\ Upd(c, [me EXCEPT !.pc = "qa_perf",
                                    !.log = Append(@, Ev("raise", "qa_arb"))])
          ELSE /\ store' = r.st
               /\ Upd(c, [me EXCEPT
                      !.pc = "qa_perf", !.writes = @ + 1,
                      !.log = Append(Append(@, Ev("return", "qa_arb")),
                                     IF r.raised THEN Ev("raise", "append")
                                     ELSE Ev("append", "qa_review"))])
    /\ UNCHANGED <<kb, started>>

\* Lines 249-256: the performance analyst's reply arrives; with a doc id its
\* review is appended; the call returns.
QaMeasured(c, reply, fk) ==
    /\ calls[c].op = "qa" /\ calls[c].pc = "qa_perf"
    /\ budget >= Cost(reply = Verdict("")) + Cost(fk = "ok")
    /\ budget' = budget - Cost(reply = Verdict("")) - Cost(fk = "ok")
    /\ LET me == calls[c]
           r == append_review(store, me.doc, "perf_qa", _safe_json(reply),
                              Fault(fk, budget))
       IN IF reply.kind = "raise"
          THEN /\ fk = "ok"
               /\ store' = store
               /\ Upd(c, Ends([me EXCEPT !.log = Append(@, Ev("raise", "qa_perf"))],
                              "returned", NoExc))
          ELSE IF me.doc = NoDoc
          THEN /\ fk = "ok"
               /\ store' = store
               /\ Upd(c, Ends([me EXCEPT !.log = Append(@, Ev("return", "qa_perf"))],
                              "returned", NoExc))
          ELSE /\ store' = r.st
               /\ Upd(c, Ends([me EXCEPT
                           !.writes = @ + 1,
                           !.log = Append(Append(@, Ev("return", "qa_perf")),
                                          IF r.raised THEN Ev("raise", "append")
                                          ELSE Ev("append", "perf_qa"))],
                              "returned", NoExc))
    /\ UNCHANGED <<kb, started>>

(***************************************************************************)
(* The next-state relation: any call in any free slot, any reply to any    *)
(* call that waits                                                         *)
(***************************************************************************)


EditCalled ==
    /\ \E c \in DOMAIN calls, d \in DocIds, s \in SummaryEdits,
          fk1 \in FaultKinds, fk2 \in FaultKinds :
           \/ ApplyUserEdit(c, d, s, FALSE, <<>>, fk1, fk2)
           \/ \E e \in EntityEdits : ApplyUserEdit(c, d, s, TRUE, e, fk1, fk2)
    /\ UNCHANGED aside

IngestCalled ==
    /\ \E c \in DOMAIN calls, d \in DocIds : StartIngest(c, d)
    /\ UNCHANGED aside

ParserReplied ==
    /\ \E c \in DOMAIN calls, reply \in ParserReplies : IngestParsed(c, reply)
    /\ UNCHANGED aside

SummarizerReplied ==
    /\ \E c \in DOMAIN calls, reply \in SummarizerReplies : IngestSummarized(c, reply)
    /\ UNCHANGED aside

EntityExtractorReplied ==
    /\ \E c \in DOMAIN calls, reply \in EntityReplies : IngestEntitiesDone(c, reply)
    /\ UNCHANGED aside

SummaryReviewerReplied ==
    /\ \E c \in DOMAIN calls, fk \in FaultKinds :
           \/ \E reply \in ReviewerReplies : IngestReviewed(c, "bias", reply, fk)
           \/ \E reply \in ReviewerReplies : IngestReviewed(c, "comp", reply, fk)
           \/ \E reply \in SecurityReplies : IngestReviewed(c, "sec", reply, fk)
           \/ \E reply \in PlainReplies : IngestReviewed(c, "perf_sum", reply, fk)
           \/ \E reply \in PlainReplies : IngestReviewed(c, "perf_ent", reply, fk)
    /\ UNCHANGED aside

SummaryArbiterReplied ==
    /\ \E c \in DOMAIN calls, reply \in PlainReplies, fk \in FaultKinds :
           IngestArbitrated(c, reply, fk)
    /\ UNCHANGED aside

KbAddReplied ==
    /\ \E c \in DOMAIN calls, reply \in KbReplies, fk1 \in FaultKinds, fk2 \in FaultKinds :
           IngestIndexed(c, reply, fk1, fk2)
    /\ UNCHANGED aside

QuestionAsked ==
    /\ \E c \in DOMAIN calls, d \in DocIds \cup {NoDoc} : StartQA(c, d)
    /\ UNCHANGED aside

SearchReplied ==
    /\ \E c \in DOMAIN calls, reply \in SearchReplies : QaSearched(c, reply)
    /\ UNCHANGED aside

AnswerReplied ==
    /\ \E c \in DOMAIN calls, reply \in AnswerReplies, fk \in FaultKinds :
           QaAnswered(c, reply, fk)
    /\ UNCHANGED aside

AnswerReviewerReplied ==
    /\ \E c \in DOMAIN calls, reply \in ReviewerReplies :
           \/ QaReviewed(c, "qa_bias", reply)
           \/ QaReviewed(c, "qa_comp", reply)
    /\ UNCHANGED aside

AnswerSecurityReplied ==
    /\ \E c \in DOMAIN calls, reply \in SecurityReplies, failing \in 0..3,
          fk \in FaultKinds :
           QaSecured(c, reply, failing, fk)
    /\ UNCHANGED aside

AnswerArbiterReplied ==
    /\ \E c \in DOMAIN calls, reply \in PlainReplies, fk \in FaultKinds :
           QaArbitrated(c, reply, fk)
    /\ UNCHANGED aside

AnswerPerfReplied ==
    /\ \E c \in DOMAIN calls, reply \in PlainReplies, fk \in FaultKinds :
           QaMeasured(c, reply, fk)
    /\ UNCHANGED aside

CallOver ==
    /\ \E c \in DOMAIN calls : Finish(c)
    /\ UNCHANGED aside

Next ==
    \/ EditCalled
    \/ IngestCalled
    \/ ParserReplied
    \/ SummarizerReplied
    \/ EntityExtractorReplied
    \/ SummaryReviewerReplied
    \/ SummaryArbiterReplied
    \/ KbAddReplied
    \/ QuestionAsked
    \/ SearchReplied
    \/ AnswerReplied
    \/ AnswerReviewerReplied
    \/ AnswerSecurityReplied
    \/ AnswerArbiterReplied
    \/ AnswerPerfReplied
    \/ CallOver

Spec == Init /\ [][Next]_vars

(***************************************************************************)
(* Properties of apply_user_edit                                           *)
(***************************************************************************)

\* The call in slot c is an edit that has ended, of a document the store
\* held when the call was made.
EditOfStored(c) ==
    /\ calls[c].op = "edit" /\ calls[c].pc = "done"
    /\ ~calls[c].store0.corrupt
    /\ calls[c].doc \in DOMAIN calls[c].store0.docs

\* The validators' verdicts on the edit in slot c, against the stored text.
SummaryRejected(c) ==
    /\ calls[c].summary # <<>>
    /\ ~SummaryValidate(calls[c].store0.docs[calls[c].doc].raw_text, calls[c].summary).ok

EntitiesRejected(c) ==
    /\ calls[c].has_entities
    /\ ~EntityValidate(calls[c].store0.docs[calls[c].doc].raw_text, calls[c].entities).ok

\* C1: an edit of a stored document whose non-empty summary or non-null
\* entity list a validator rejects raises ValidationError, makes no store
\* write, invokes no rollback and leaves the store as it was.
C1_RejectedEditLeavesStore ==
    \A c \in DOMAIN calls :
        EditOfStored(c) /\ (SummaryRejected(c) \/ EntitiesRejected(c))
            => /\ calls[c].outcome = "raised"
               /\ calls[c].exc.type = "ValidationError"
               /\ calls[c].writes = 0
               /\ calls[c].rollbacks = 0
               /\ store = calls[c].store0

\* An edit whose summary was accepted and whose entities were rejected.
C1_EntitiesOnlyRejected ==
    \E c \in DOMAIN calls :
        /\ EditOfStored(c)
        /\ calls[c].summary # <<>> /\ ~SummaryRejected(c)
        /\ EntitiesRejected(c)
        /\ calls[c].outcome = "raised"

\* The store after a write that changed the summary and entities of the
\* document to s and e is rolled back with `snapshot`.
RolledBack(st, doc_id, s, e, snapshot) ==
    rollback_summary(update_summary(st, doc_id, s, TRUE, e, NoFault).st,
                     snapshot, NoFault).st

\* C2: when the write of an accepted edit of a stored document raises,
\* rollback is invoked once, with the snapshot of the document as the call
\* found it, and the call raises; when the rollback's write goes through,
\* the error raised is the write's and the store is as before the call,
\* and so it would be whatever summary and entities the failed write had
\* left behind.
C2_FailedWriteRolledBack ==
    \A c \in DOMAIN calls :
        EditOfStored(c) /\ calls[c].w_exc # NoExc
            => /\ calls[c].rollbacks = 1
               /\ calls[c].rb_snapshot
                      = take_summary_snapshot(calls[c].store0, calls[c].doc)
               /\ calls[c].outcome = "raised"
               /\ calls[c].rb_exc = NoExc
                      => /\ calls[c].exc = calls[c].w_exc
                         /\ store = calls[c].store0
               /\ \A s \in SummaryEdits, e \in EntityEdits :
                      RolledBack(calls[c].store0, calls[c].doc, s, e,
                                 calls[c].rb_snapshot) = calls[c].store0

\* An edit that would have changed the summary, whose write failed and
\* whose rollback went through.
C2_WriteFailedRollbackDone ==
    \E c \in DOMAIN calls :
        /\ EditOfStored(c)
        /\ calls[c].w_exc # NoExc /\ calls[c].rb_exc = NoExc
        /\ calls[c].rollbacks = 1
        /\ calls[c].summary # calls[c].store0.docs[calls[c].doc].summary

\* C3: when the write issued by rollback_summary fails, that error is the
\* one apply_user_edit raises, and the rollback was attempted once: the
\* call made two store writes, the edit's and the rollback's.
C3_RollbackErrorPropagates ==
    \A c \in DOMAIN calls :
        calls[c].op = "edit" /\ calls[c].pc = "done" /\ calls[c].rb_exc # NoExc
            => /\ calls[c].outcome = "raised"
               /\ calls[c].exc = calls[c].rb_exc
               /\ calls[c].rollbacks = 1
               /\ calls[c].writes = 2

\* An edit whose write failed and whose rollback failed with another error.
C3_RollbackFailed ==
    \E c \in DOMAIN calls :
        /\ calls[c].op = "edit" /\ calls[c].pc = "done"
        /\ calls[c].rb_exc # NoExc
        /\ calls[c].rb_exc # calls[c].w_exc
        /\ calls[c].exc = calls[c].rb_exc


(***************************************************************************)
(* Properties of ingest_document                                           *)
(***************************************************************************)

\* The call in slot c is an ingestion that has ended.
IngestOver(c) == calls[c].op = "ingest" /\ calls[c].pc = "done"

\* The parser's output is not a JSON object, or its raw_text is missing,
\* empty or whitespace.
ParserOutputUnusable(reply) ==
    \/ reply.kind \in {"text", "json_other"}
    \/ /\ reply.kind = "object"
       /\ ~reply.has_raw \/ Strip(reply.raw_text) = <<>>

\* C4: when the parser's output is not a JSON object, or its raw_text is
\* missing, empty or whitespace, ingest_document raises ParsingError having
\* written nothing: the store and the index are as the call found them (so
\* an id that was new has no entry and no chunks) and no review was
\* appended.
C4_UnusableParseWritesNothing ==
    \A c \in DOMAIN calls :
        IngestOver(c) /\ ParserOutputUnusable(calls[c].parser_reply)
            => /\ calls[c].outcome = "raised"
               /\ calls[c].exc.type = "ParsingError"
               /\ calls[c].writes = 0 /\ calls[c].log = <<>>
               /\ store = calls[c].store0 /\ kb = calls[c].kb0
               /\ calls[c].doc \notin DOMAIN calls[c].store0.docs
                      => calls[c].doc \notin DOMAIN store.docs
               /\ calls[c].doc \notin DOMAIN calls[c].kb0
                      => calls[c].doc \notin DOMAIN kb

\* An ingestion of a new id whose parser returned whitespace for raw_text.
C4_WhitespaceOnlyParse ==
    \E c \in DOMAIN calls :
        /\ IngestOver(c)
        /\ calls[c].parser_reply.kind = "object"
        /\ calls[c].parser_reply.has_raw
        /\ calls[c].parser_reply.raw_text # <<>>
        /\ Strip(calls[c].parser_reply.raw_text) = <<>>
        /\ calls[c].outcome = "raised"
        /\ calls[c].doc \notin DOMAIN store.docs
        /\ calls[c].doc \notin DOMAIN kb

\* C5: when the call of the parser agent itself raises or times out,
\* ingest_document fails with ParsingError.
C5_ParserCallFailureIsParsingError ==
    \A c \in DOMAIN calls :
        IngestOver(c) /\ calls[c].parser_reply.kind = "raise"
            => /\ calls[c].outcome = "raised"
               /\ calls[c].exc.type = "ParsingError"

\* C6: while and after a new id is ingested, the store has no entry for it,
\* or the call has returned and the entry holds the raw text, sections,
\* summary and entities of that ingestion; after a call that raised there
\* is no entry.
C6_AbsentOrFullyWritten ==
    \A c \in DOMAIN calls :
        calls[c].op = "ingest" /\ calls[c].doc \notin DOMAIN calls[c].store0.docs
            => /\ calls[c].doc \in DOMAIN store.docs
                      => /\ calls[c].pc = "done" /\ calls[c].outcome = "returned"
                         /\ store.docs[calls[c].doc].raw_text = calls[c].raw_text
                         /\ store.docs[calls[c].doc].sections = calls[c].sections
                         /\ store.docs[calls[c].doc].summary = calls[c].summary
                         /\ store.docs[calls[c].doc].entities = calls[c].entities
               /\ calls[c].outcome = "raised" => calls[c].doc \notin DOMAIN store.docs

\* An ingestion of a new id that returned, its entry in the store with a
\* fallback summary.
C6_NewIdWritten ==
    \E c \in DOMAIN calls :
        /\ IngestOver(c) /\ calls[c].outcome = "returned"
        /\ calls[c].doc \notin DOMAIN calls[c].store0.docs
        /\ calls[c].doc \in DOMAIN store.docs
        /\ calls[c].sum_path = "rejected"
        /\ store.docs[calls[c].doc].summary # <<>>


\* The errors a store function raises.
StoreErrors == {"OSError", "JSONDecodeError"}

\* The non-blank lines among the first six of raw_text, joined by newlines.
HeadLines(raw_text) ==
    LET lines == SplitLines(raw_text)
        HasText(l) == Strip(l) # <<>>
    IN Join(SelectSeq([n \in 1..Min(FallbackLines, Len(lines)) |-> lines[n]], HasText), NL)

\* The summary the claim expects after a summarization that did not
\* validate, given the placeholder.
ExpectedFallback(raw_text, placeholder) ==
    IF HeadLines(raw_text) # <<>>
    THEN Take(HeadLines(raw_text), FallbackChars)
    ELSE Take(placeholder, FallbackChars)

\* The summarization of the call in slot c was rejected or failed.
SummaryFellBack(c) ==
    calls[c].op = "ingest" /\ calls[c].sum_path \in {"rejected", "failed"}

\* C7 as stated: after a summarization that was rejected or failed, the
\* summary is the head lines cut to 600 characters, or, when there are
\* none, one fixed placeholder.
C7_FixedPlaceholder ==
    \A c \in DOMAIN calls :
        SummaryFellBack(c)
            => calls[c].summary = ExpectedFallback(calls[c].raw_text, ValidationPlaceholder)

\* C7, amended: after a summarization that was rejected or failed, the
\* call goes on; its summary is the head lines cut to 600 characters, or,
\* when there are none, "Summary unavailable due to validation." after a
\* rejection and "Summary unavailable: " followed by the error's message
\* after another failure, cut to 600 characters; that summary is the one
\* persisted and returned, and the call raises only if a store function
\* raises.
C7_FallbackSummary ==
    \A c \in DOMAIN calls :
        SummaryFellBack(c)
            => /\ calls[c].summary
                      = ExpectedFallback(calls[c].raw_text,
                            IF calls[c].sum_path = "rejected"
                            THEN ValidationPlaceholder
                            ELSE GenericPlaceholderPrefix \o calls[c].sum_msg)
               /\ calls[c].outcome = "raised" => calls[c].exc.type \in StoreErrors
               /\ calls[c].outcome = "returned"
                      => /\ Ev("put", calls[c].doc) \in Range(calls[c].log)
                         /\ store.docs[calls[c].doc].summary = calls[c].summary

\* An ingestion of a text with nothing in its first six lines returned
\* after its summarizer failed, the summary being the message's placeholder.
C7_FailedWithoutHead ==
    \E c \in DOMAIN calls :
        /\ IngestOver(c) /\ calls[c].outcome = "returned"
        /\ calls[c].sum_path = "failed"
        /\ HeadLines(calls[c].raw_text) = <<>>
        /\ store.docs[calls[c].doc].summary
               = Take(GenericPlaceholderPrefix \o calls[c].sum_msg, FallbackChars)

\* The entity extraction of the call in slot c was rejected or failed.
EntitiesFellBack(c) ==
    calls[c].op = "ingest" /\ calls[c].ent_path \in {"rejected", "failed"}

\* C8: after an entity extraction that was rejected or failed, the call
\* goes on with the entities ["No entities found."], invokes no rollback,
\* persists and returns that list, and raises only if a store function
\* raises; the entity validator accepts that list for every source text.
C8_SentinelEntities ==
    \A c \in DOMAIN calls :
        EntitiesFellBack(c)
            => /\ calls[c].entities = <<SentinelText>>
               /\ calls[c].rollbacks = 0
               /\ calls[c].outcome = "raised" => calls[c].exc.type \in StoreErrors
               /\ calls[c].outcome = "returned"
                      => /\ Ev("put", calls[c].doc) \in Range(calls[c].log)
                         /\ store.docs[calls[c].doc].entities = <<SentinelText>>
               /\ \A raw \in RawTexts \cup {<<>>, calls[c].raw_text} :
                      EntityValidate(raw, <<SentinelText>>).ok

\* An ingestion returned after the validator rejected its entities.
C8_RejectedEntitiesPersisted ==
    \E c \in DOMAIN calls :
        /\ IngestOver(c) /\ calls[c].outcome = "returned"
        /\ calls[c].ent_path = "rejected"
        /\ store.docs[calls[c].doc].entities = SentinelEntities


(***************************************************************************)
(* Properties of the reviewers                                             *)
(***************************************************************************)

\* Where a call waits for a reviewer, the arbiter or the performance
\* analyst.
SummaryReviewPcs == {"bias", "comp", "sec", "arb", "perf_sum", "perf_ent"}

AnswerReviewPcs == {"qa_bias", "qa_comp", "qa_sec", "qa_arb", "qa_perf"}

\* What the call in slot c hands back.
Result(c) ==
    <<calls[c].raw_text, calls[c].sections, calls[c].summary, calls[c].entities,
      calls[c].answer, calls[c].contexts>>

CriticsOf(op) ==
    IF op = "ingest" THEN {"bias", "comp", "sec", "perf_sum", "perf_ent"}
    ELSE {"qa_bias", "qa_comp", "qa_sec", "qa_perf"}

\* The reviewers' block of the call in slot c is over.
ReviewsOver(c) ==
    \/ calls[c].op = "ingest" /\ calls[c].pc = "kb_add"
    \/ calls[c].op = "qa" /\ calls[c].pc = "done" /\ calls[c].outcome = "returned"

\* C10: when the call of one reviewer raised, every other reviewer of the
\* fixed order was still called.
C10_OtherReviewersStillRun ==
    \A c \in DOMAIN calls :
        ReviewsOver(c)
            => \A x \in CriticsOf(calls[c].op) :
                   Ev("raise", x) \in Range(calls[c].log)
                       => \A y \in CriticsOf(calls[c].op) \ {x} :
                              \/ Ev("return", y) \in Range(calls[c].log)
                              \/ Ev("raise", y) \in Range(calls[c].log)


\* A step that is no reply of a reviewer, of the arbiter or of the
\* performance analyst: the code awaits those without a timeout (lines
\* 141-163 and 230-250), so a call that waits for one of them takes no
\* other step.
PrimaryStep ==
    \/ EditCalled \/ IngestCalled \/ QuestionAsked
    \/ ParserReplied \/ SummarizerReplied \/ EntityExtractorReplied
    \/ KbAddReplied \/ SearchReplied \/ AnswerReplied
    \/ CallOver

\* C11: a call never blocks on a reviewer: while it waits for a
\* reviewer, the arbiter or the performance analyst it can go on towards
\* Persist or its answer by a step that is not their reply, so that it
\* ends even if that reply never comes.
C11_NeverBlocksOnReviewer ==
    \A c \in DOMAIN calls :
        calls[c].pc \in SummaryReviewPcs \cup AnswerReviewPcs
            => ENABLED PrimaryStep

(***************************************************************************)
(* Properties of the review and disagreement records                       *)
(***************************************************************************)

\* The types of the records in a list of reviews.
TypesOf(reviews) == {reviews[i].type : i \in 1..Len(reviews)}

\* The reviewers of the summary whose verdicts the block of lines 140-169
\* stores.
SummaryCritics == {"bias", "comp", "sec", "perf_sum", "perf_ent"}

\* C12: after an ingestion that returned and in which the bias,
\* completeness and security reviewers and the performance analyst each
\* returned a verdict, the stored document's reviews hold a record for
\* each of those verdicts.
C12_VerdictsPersisted ==
    \A c \in DOMAIN calls :
        /\ IngestOver(c) /\ calls[c].outcome = "returned"
        /\ \A x \in SummaryCritics : Ev("return", x) \in Range(calls[c].log)
        => \A x \in SummaryCritics :
               ReviewType(x) \in TypesOf(store.docs[calls[c].doc].reviews)

\* a is a prefix of b
IsPrefix(a, b) == Len(a) <= Len(b) /\ SubSeq(b, 1, Len(a)) = a

\* C13: the reviews and the disagreements of a document only grow: in
\* every step, the lists a stored document had are prefixes of the lists
\* it has afterwards.
C13_RecordsAppendOnly ==
    [][\A d \in DOMAIN store.docs \cap DOMAIN store'.docs :
          /\ IsPrefix(store.docs[d].reviews, store'.docs[d].reviews)
          /\ IsPrefix(store.docs[d].disagreements, store'.docs[d].disagreements)
      ]_vars

\* The disagreement records of a document in a store, none when the
\* document is not there.
DisagreementsOf(st, d) ==
    IF d \in DOMAIN st.docs THEN st.docs[d].disagreements ELSE <<>>

\* How many times the event is in the log.
Count(log, e) == Cardinality({i \in 1..Len(log) : log[i] = e})

\* The arbitration calls a call has issued and seen end.
ArbiterCalls(c, arb) ==
    Count(calls[c].log, Ev("return", arb)) + Count(calls[c].log, Ev("raise", arb))

\* The review block (lines 228-246) of a question about a stored document
\* is over, its three reviewers having returned; the performance analyst
\* is not called yet.
QaReviewedOver(c) ==
    /\ calls[c].op = "qa" /\ calls[c].pc = "qa_perf"
    /\ calls[c].doc \in DOMAIN calls[c].store0.docs
    /\ \A x \in {"qa_bias", "qa_comp", "qa_sec"} :
           Ev("return", x) \in Range(calls[c].log)

\* One of the two verdicts is pass and the other is fail.
Diverge(bias, comp) ==
    {bias.verdict, comp.verdict} = {"pass", "fail"}

\* What the call has added to the disagreements of its document: nothing,
\* or exactly one record of the phase.
AddedNone(c) ==
    DisagreementsOf(store, calls[c].doc)
        = DisagreementsOf(calls[c].store0, calls[c].doc)

AddedOne(c, phase) ==
    LET now == DisagreementsOf(store, calls[c].doc)
        before == DisagreementsOf(calls[c].store0, calls[c].doc)
    IN /\ Len(now) = Len(before) + 1
       /\ SubSeq(now, 1, Len(before)) = before
       /\ now[Len(now)].phase = phase

Tagged(st, d, phase) ==
    LET ds == DisagreementsOf(st, d)
    IN Cardinality({i \in 1..Len(ds) : ds[i].phase = phase})

\* C15: after an ingestion that returned, in which the bias and
\* completeness reviewers returned and no call or store write failed: if one
\* verdict is pass and the other fail, in either order, one arbitration
\* call was issued and the persisted document carries exactly one
\* disagreement record tagged summary_review; if they agree, no
\* arbitration call was issued and the document carries none.
C15_SummaryDisagreementPersisted ==
    \A c \in DOMAIN calls :
        /\ IngestOver(c) /\ calls[c].outcome = "returned"
        /\ Ev("return", "bias") \in Range(calls[c].log)
        /\ Ev("return", "comp") \in Range(calls[c].log)
        /\ \A i \in 1..Len(calls[c].log) : calls[c].log[i].ev # "raise"
        => IF Diverge(calls[c].bias, calls[c].comp)
           THEN /\ ArbiterCalls(c, "arb") = 1
                /\ Tagged(store, calls[c].doc, "summary_review") = 1
           ELSE /\ ArbiterCalls(c, "arb") = 0
                /\ Tagged(store, calls[c].doc, "summary_review") = 0

(***************************************************************************)
(* Properties of answer_question                                           *)
(***************************************************************************)

\* The review records of a document in a store, none when the document is
\* not there.
ReviewsOf(st, d) ==
    IF d \in DOMAIN st.docs THEN st.docs[d].reviews ELSE <<>>

\* The contexts Retrieve builds for the call: the first sections of its
\* document, then what the search returned.
BuiltContexts(c) ==
    IF calls[c].doc # NoDoc
    THEN Take(calls[c].sections, QaSections) \o <<Retrieved>>
    ELSE <<Retrieved>>

\* The call has recorded the validator's rejection on its document, before
\* any review of a critic.
NoteRecorded(c) ==
    LET now == ReviewsOf(store, calls[c].doc)
        before == ReviewsOf(calls[c].store0, calls[c].doc)
    IN /\ Len(now) > Len(before)
       /\ now[Len(before) + 1].type = "qa_validator_note"

\* C16: when the answer validator has rejected the answer, the question
\* does not raise; it hands back the sentinel answer and exactly the
\* contexts built in Retrieve; and it has recorded a qa_validator_note on
\* the document, first of its records, if a doc id was given, and none
\* if none was given (a doc id of no stored document is left aside).
C16_RejectedAnswerDegrades ==
    \A c \in DOMAIN calls :
        calls[c].op = "qa" /\ calls[c].qa_path = "rejected"
        => /\ calls[c].outcome # "raised"
           /\ calls[c].answer = DontKnowAnswer
           /\ calls[c].contexts = BuiltContexts(c)
           /\ calls[c].doc \in DOMAIN calls[c].store0.docs => NoteRecorded(c)
           /\ calls[c].doc = NoDoc => ~NoteRecorded(c)

\* C17: a question that raises, other than by an error of the store,
\* raises QAError: a failure of the retrieval query or of the answer
\* completion reaches the caller as QAError, and a rejection by the
\* validator as no exception.
C17_OnlyQAErrorEscapes ==
    \A c \in DOMAIN calls :
        /\ calls[c].op = "qa" /\ calls[c].outcome = "raised"
        /\ calls[c].exc.type \notin StoreErrors
        => calls[c].exc.type = "QAError" /\ calls[c].qa_path # "rejected"

(***************************************************************************)
(* Properties of the index step and of the order of the stages             *)
(***************************************************************************)

\* C18: after an ingestion whose index call failed and in which no store
\* function raised, the call has returned, the document is stored with
\* the raw text, sections, summary and entities of the call, and its
\* reviews hold a kb_index_error record.
C18_IndexFailureRecorded ==
    \A c \in DOMAIN calls :
        /\ IngestOver(c)
        /\ Ev("raise", "kb_add") \in Range(calls[c].log)
        /\ calls[c].exc.type \notin StoreErrors
        => /\ calls[c].outcome = "returned"
           /\ calls[c].doc \in DOMAIN store.docs
           /\ LET doc == store.docs[calls[c].doc]
              IN /\ doc.raw_text = calls[c].raw_text
                 /\ doc.sections = calls[c].sections
                 /\ doc.summary = calls[c].summary
                 /\ doc.entities = calls[c].entities
                 /\ "kb_index_error" \in TypesOf(doc.reviews)

\* The position of a step of ingest_document in the text of the function:
\* Extract (line 99), Summarize (116), ExtractEntities (131), the awaits of
\* ReviewSummary (141-163) in their order, IndexChunks with Persist
\* (174-186), and the end of the call.
PcRank(pc) ==
    CASE pc = "parse" -> 1
      [] pc = "summarize" -> 2
      [] pc = "entities" -> 3
      [] pc = "bias" -> 4
      [] pc = "comp" -> 5
      [] pc = "sec" -> 6
      [] pc = "arb" -> 7
      [] pc = "perf_sum" -> 8
      [] pc = "perf_ent" -> 9
      [] pc = "kb_add" -> 10
      [] pc = "done" -> 11
      [] OTHER -> 0

\* The step appends the event to the log of the call.
Logs(c, e) ==
    /\ Len(calls'[c].log) > Len(calls[c].log)
    /\ \E i \in (Len(calls[c].log) + 1)..Len(calls'[c].log) : calls'[c].log[i] = e

\* C19: an ingestion starts with Extract and every step of it moves
\* forward in the order Extract, Summarize, ExtractEntities,
\* ReviewSummary, IndexChunks, Persist, so that no stage is entered twice
\* or re-entered; put_document is called in the step that follows the end
\* of the index call, it is the last event of the call, and once the call
\* is over the store is no longer written.
C19_StagesInOrder ==
    [][\A c \in DOMAIN calls :
          /\ calls[c].op = "idle" /\ calls'[c].op = "ingest"
                 => calls'[c].pc = "parse"
          /\ calls[c].op = "ingest" /\ calls'[c].op = "ingest"
                 => PcRank(calls'[c].pc) > PcRank(calls[c].pc)
          /\ calls[c].op = "ingest" /\ Logs(c, Ev("put", calls[c].doc))
                 => /\ calls[c].pc = "kb_add" /\ calls'[c].pc = "done"
                    /\ calls'[c].log[Len(calls'[c].log)] = Ev("put", calls[c].doc)
                    /\ Ev("put", calls[c].doc) \notin Range(calls[c].log)
          /\ IngestOver(c) => store' = store
      ]_vars

\* An ingestion went through every stage and every reviewer, the arbiter
\* included, and ended with the write of the document.
C19_AllStagesPassed ==
    \E c \in DOMAIN calls :
        /\ IngestOver(c) /\ calls[c].outcome = "returned"
        /\ \A x \in SummaryCritics \cup {"arb"} :
               Ev("return", x) \in Range(calls[c].log)
        /\ calls[c].log[Len(calls[c].log)] = Ev("put", calls[c].doc)
        /\ calls[c].doc \in DOMAIN kb

\* C20: a critic is run only on an accepted artifact: while an ingestion
\* is at a reviewer of its summary, the summarization of the call passed
\* the summary validator, or at least the summary under review is one the
\* validator accepts; likewise the answer while a question is at a
\* reviewer of its answer.
C20_ReviewsFollowAcceptance ==
    \A c \in DOMAIN calls :
        /\ calls[c].op = "ingest" /\ calls[c].pc \in SummaryReviewPcs
               => \/ calls[c].sum_path = "valid"
                  \/ SummaryValidate(calls[c].raw_text, calls[c].summary).ok
        /\ calls[c].op = "qa" /\ calls[c].pc \in AnswerReviewPcs
               => \/ calls[c].qa_path = "valid"
                  \/ QAValidate(calls[c].answer, calls[c].contexts).ok

(***************************************************************************)
(* The lexical index: kb_add and kb_search of mcp_server/server.py.        *)
(* kb_store.json is the sequence of the entries of kb["docs"] in the order *)
(* of its keys, which json.dump and json.load keep. Both tools are         *)
(* coroutines without an await, so the server's event loop runs each call  *)
(* it holds from its first line to its return before it starts another.    *)
(***************************************************************************)

\* _load_kb(): the file parsed; {"docs": {}} when it does not exist.
_load_kb(file) == file

\* _save_kb(kb) as a slip would have it: the file left holding a part of
\* what was to be written, the last entry cut after its first chunk.
_save_kb_Torn(file, docs) ==
    IF docs = <<>> THEN docs
    ELSE [docs EXCEPT ![Len(docs)].chunks = Take(@, 1)]

\* _save_kb(kb): the file rewritten from the dict.
_save_kb(file, docs) == docs

\* The place of doc_id among the keys of kb["docs"], 0 when it is no key.
KeyAt(docs, doc_id) ==
    IF \E i \in 1..Len(docs) : docs[i].doc_id = doc_id
    THEN CHOOSE i \in 1..Len(docs) : docs[i].doc_id = doc_id
    ELSE 0

\* Line 86 as a slip would have it: the dict built anew around the entry.
SetEntry_Alone(docs, doc_id, chunks) ==
    <<[doc_id |-> doc_id, chunks |-> chunks]>>

\* kb["docs"][doc_id] = {"chunks": chunks}: a key the dict has keeps its
\* place, a new key goes last.
SetEntry(docs, doc_id, chunks) ==
    IF KeyAt(docs, doc_id) # 0
    THEN [docs EXCEPT ![KeyAt(docs, doc_id)] = [doc_id |-> doc_id, chunks |-> chunks]]
    ELSE Append(docs, [doc_id |-> doc_id, chunks |-> chunks])

\* kb_add(doc_id, text): the file it leaves and the count it reports.
kb_add(file, doc_id, text) ==
    LET chunks == KbChunks(text)
    IN [file |-> _save_kb(file, SetEntry(_load_kb(file), doc_id, chunks)),
        out |-> [kind |-> "indexed", n |-> Len(chunks), doc_id |-> doc_id]]

\* Lines 96-101: corpus and owners, built side by side over the entries in
\* the order of the keys.
RECURSIVE Corpus(_)
Corpus(docs) ==
    IF docs = <<>> THEN <<>>
    ELSE [n \in 1..Len(Head(docs).chunks) |->
             [chunk |-> Head(docs).chunks[n], owner |-> Head(docs).doc_id]]
         \o Corpus(Tail(docs))

\* Line 102 as a slip would have it: the dict tested instead of the corpus.
NothingIndexed_NoKeys(docs) == docs = <<>>

\* Line 102: not corpus
NothingIndexed(docs) == Corpus(docs) = <<>>

\* The scores BM25Okapi.get_scores may give (rank_bm25 is no part of the
\* repository): a chunk without any token of the query scores 0, chunks of
\* the same text score the same, and any other score is possible, below
\* zero included.
Scores == (0 - 1)..1

ScoresFor(corpus, query) ==
    LET q == Range(SplitWs(query))
        Hit(i) == Range(SplitWs(corpus[i].chunk)) \cap q # {}
    IN {sc \in [1..Len(corpus) -> Scores] :
           /\ \A i \in 1..Len(corpus) : ~Hit(i) => sc[i] = 0
           /\ \A i, j \in 1..Len(corpus) :
                  corpus[i].chunk = corpus[j].chunk => sc[i] = sc[j]}

\* sorted(..., key=score, reverse=True) as a slip would have it: among
\* equal scores the later position first.
RECURSIVE Sorted_LaterFirst(_, _)
Sorted_LaterFirst(todo, sc) ==
    IF todo = {} THEN <<>>
    ELSE LET top == CHOOSE i \in todo :
                        \A j \in todo : sc[i] > sc[j] \/ (sc[i] = sc[j] /\ i >= j)
         IN <<top>> \o Sorted_LaterFirst(todo \ {top}, sc)

\* sorted(list(enumerate(scores)), key=lambda t: t[1], reverse=True): the
\* positions by decreasing score; the sort is stable, so equal scores stay
\* in the order of their positions.
RECURSIVE Sorted(_, _)
Sorted(todo, sc) ==
    IF todo = {} THEN <<>>
    ELSE LET top == CHOOSE i \in todo :
                        \A j \in todo : sc[i] > sc[j] \/ (sc[i] = sc[j] /\ i <= j)
         IN <<top>> \o Sorted(todo \ {top}, sc)

\* The signal "KB is empty."
KbEmpty == [kind |-> "empty"]

\* BM25Okapi([]) divides by the size of the corpus.
KbRaised == [kind |-> "raise", type |-> "ZeroDivisionError"]

\* kb_search(query, top_k) with the scores sc: the ranked chunks, each with
\* its position in the corpus counted from 0 and its score. `owner` is
\* owners[idx], which the code builds and does not return.
kb_search(file, query, top_k, sc) ==
    LET docs == _load_kb(file)
        corpus == Corpus(docs)
        ranked == Take(Sorted(1..Len(corpus), sc), Max(1, top_k))
    IN IF NothingIndexed(docs) THEN KbEmpty
       ELSE IF corpus = <<>> THEN KbRaised
       ELSE [kind |-> "hits",
             hits |-> [r \in 1..Len(ranked) |->
                          [idx |-> ranked[r] - 1, score |-> sc[ranked[r]],
                           chunk |-> corpus[ranked[r]].chunk,
                           owner |-> corpus[ranked[r]].owner]]]

\* What the clients send: texts of two chunks, of one chunk and of nothing
\* but blanks, and queries that meet a chunk or none, for one result or the
\* default five.
KbTexts ==
    {<<"a", "b", "\n", "\n", "c", "d">>, <<"c", "d">>, <<" ", "\n", "\n", " ">>}

KbQueries == {<<"c", "d">>, <<"z", "z">>}

TopKs == {0, 5}

AddCall(doc_id, text) ==
    [tool |-> "kb_add", doc_id |-> doc_id, text |-> text, query |-> <<>>, top_k |-> 0]

SearchCall(query, top_k) ==
    [tool |-> "kb_search", doc_id |-> "", text |-> <<>>, query |-> query, top_k |-> top_k]

\* How many calls the server may hold at once.
MaxPending == 2

\* A client calls a tool; the server holds the call until it runs it.
ToolCalled ==
    /\ Cardinality(mcp.inbox) < MaxPending
    /\ \E call \in {AddCall(d, t) : d \in DocIds, t \in KbTexts}
                       \cup {SearchCall(q, k) : q \in KbQueries, k \in TopKs} :
           /\ call \notin mcp.inbox
           /\ mcp' = [mcp EXCEPT !.inbox = @ \cup {call}]
    /\ UNCHANGED <<index, probe>>
    /\ UNCHANGED core

\* doc_id moved to the end of the list.
MovedLast(ds, doc_id) ==
    LET Other(d) == d # doc_id IN Append(SelectSeq(ds, Other), doc_id)

\* The server runs one of the kb_add calls it holds.
KbAddServed ==
    /\ \E call \in mcp.inbox :
           /\ call.tool = "kb_add"
           /\ LET r == kb_add(index, call.doc_id, call.text)
                  at == KeyAt(index, call.doc_id)
              IN /\ index' = r.file
                 /\ mcp' = [inbox |-> mcp.inbox \ {call}, last |-> call, out |-> r.out,
                            was |-> IF at = 0 THEN <<>> ELSE index[at].chunks,
                            source |-> Put(mcp.source, call.doc_id, call.text),
                            indexed |-> MovedLast(mcp.indexed, call.doc_id),
                            seen |-> <<>>]
    /\ UNCHANGED probe
    /\ UNCHANGED core

\* The server runs one of the kb_search calls it holds.
KbSearchServed ==
    /\ \E call \in mcp.inbox :
           /\ call.tool = "kb_search"
           /\ \E sc \in ScoresFor(Corpus(_load_kb(index)), call.query) :
                  mcp' = [mcp EXCEPT !.inbox = @ \ {call}, !.last = call,
                                     !.out = kb_search(index, call.query, call.top_k, sc),
                                     !.seen = Corpus(_load_kb(index))]
    /\ UNCHANGED <<index, probe>>
    /\ UNCHANGED core

\* The orchestrator at rest: the server's clients are all the model sees.
CoreIdle ==
    /\ store = EmptyStore /\ kb = EmptyDocs
    /\ calls = [c \in Slots |-> Idle]
    /\ started = 0 /\ budget = 0

KbInit == CoreIdle /\ index = NoIndex /\ mcp = NoCalls /\ probe = NoProbe

KbNext == ToolCalled \/ KbAddServed \/ KbSearchServed

KbSpec == KbInit /\ [][KbNext]_vars

(***************************************************************************)
(* Properties of the lexical index                                         *)
(***************************************************************************)

\* The chunks of doc_id among those of a corpus, in its order.
OwnedBy(corpus, doc_id) ==
    LET Own(e) == e.owner = doc_id
        own == SelectSeq(corpus, Own)
    IN [n \in 1..Len(own) |-> own[n].chunk]

\* The step runs a kb_add call.
AddStep == mcp'.inbox # mcp.inbox /\ mcp'.inbox \subseteq mcp.inbox
               /\ mcp'.last.tool = "kb_add"

\* C21: a kb_add(d, t) leaves d holding exactly the chunks of t, whatever
\* it held before (no chunk of an earlier text stays, none is doubled), d
\* being a key of the file once; and it leaves every other doc id as it
\* was: a key or not, and with the same chunks.
C21_ReindexReplaces ==
    [][AddStep =>
          LET d == mcp'.last.doc_id
          IN /\ OwnedBy(Corpus(index'), d) = KbChunks(mcp'.last.text)
             /\ Cardinality({i \in 1..Len(index') : index'[i].doc_id = d}) = 1
             /\ \A e \in DocIds \ {d} :
                    /\ (KeyAt(index', e) # 0) = (KeyAt(index, e) # 0)
                    /\ OwnedBy(Corpus(index'), e) = OwnedBy(Corpus(index), e)
      ]_vars

\* A document that held chunks was indexed again from another text, while
\* another document holds chunks too.
C21_IndexedTwice ==
    /\ mcp.last.tool = "kb_add"
    /\ mcp.was # <<>>
    /\ KbChunks(mcp.last.text) # <<>>
    /\ mcp.was # KbChunks(mcp.last.text)
    /\ \E e \in DocIds \ {mcp.last.doc_id} : OwnedBy(Corpus(index), e) # <<>>

\* C22: a kb_search on a file without any chunk, for want of documents or
\* because every document has an empty chunk list, returns "KB is empty."
\* whatever the query and top_k, and does not raise.
C22_EmptyCorpusSignal ==
    mcp.last.tool = "kb_search" /\ Corpus(index) = <<>> => mcp.out = KbEmpty

\* A search met a file whose only documents have no chunks.
C22_SearchedChunklessDocs ==
    /\ mcp.last.tool = "kb_search"
    /\ index # <<>> /\ Corpus(index) = <<>>
    /\ mcp.out = KbEmpty

\* The place of x in a sequence without repetition, 0 when it is not in it.
PlaceIn(xs, x) ==
    IF \E i \in 1..Len(xs) : xs[i] = x
    THEN CHOOSE i \in 1..Len(xs) : xs[i] = x
    ELSE 0

\* The last kb_search returned chunks.
Hits == IF mcp.last.tool = "kb_search" /\ mcp.out.kind = "hits"
        THEN mcp.out.hits ELSE <<>>

\* C23 as stated: the chunks come by non-increasing score, and among equal
\* scores the chunk indexed earlier comes first: the one of the document
\* whose last kb_add was earlier, or, in one document, the earlier chunk of
\* its text.
C23_TiesByIndexingTime ==
    \A i, j \in 1..Len(Hits) :
        i < j =>
            \/ Hits[i].score > Hits[j].score
            \/ /\ Hits[i].score = Hits[j].score
               /\ \/ PlaceIn(mcp.indexed, Hits[i].owner)
                         < PlaceIn(mcp.indexed, Hits[j].owner)
                  \/ /\ Hits[i].owner = Hits[j].owner
                     /\ Hits[i].idx < Hits[j].idx

\* C23, amended: the chunks come by non-increasing score, and among equal
\* scores in the order of the corpus, which follows the keys of the file:
\* each returned chunk is the one at its position in the corpus, and of two
\* chunks of equal score the one at the lower position comes first.
C23_TiesByCorpusOrder ==
    /\ \A i \in 1..Len(Hits) :
           /\ Hits[i].idx + 1 \in 1..Len(Corpus(index))
           /\ Corpus(index)[Hits[i].idx + 1]
                  = [chunk |-> Hits[i].chunk, owner |-> Hits[i].owner]
    /\ \A i, j \in 1..Len(Hits) :
           i < j =>
               \/ Hits[i].score > Hits[j].score
               \/ Hits[i].score = Hits[j].score /\ Hits[i].idx < Hits[j].idx

\* The keys of the file are in the order of their first kb_add: a kb_add
\* for a key of the file leaves the order of the keys as it is, one for a
\* new key puts it last.
C23_KeysKeepTheirPlace ==
    [][AddStep =>
          LET keys == [i \in 1..Len(index) |-> index[i].doc_id]
              keys2 == [i \in 1..Len(index') |-> index'[i].doc_id]
          IN keys2 = IF KeyAt(index, mcp'.last.doc_id) # 0 THEN keys
                     ELSE Append(keys, mcp'.last.doc_id)
      ]_vars

\* A search returned two chunks of equal score, the first of them of a
\* document indexed again after the document of the second.
C23_TieAfterReindex ==
    \E i, j \in 1..Len(Hits) :
        /\ i < j
        /\ Hits[i].score = Hits[j].score
        /\ PlaceIn(mcp.indexed, Hits[i].owner) > PlaceIn(mcp.indexed, Hits[j].owner)

Strings(alphabet, n) == UNION {[1..k -> alphabet] : k \in 0..n}

\* The texts and sizes split_into_chunks is applied to: every text of a
\* letter, a blank and a line break up to MaxTextLen characters.
MaxTextLen == 5

MaxChunkChars == 4

ChunkInit ==
    /\ CoreIdle /\ index = NoIndex /\ mcp = NoCalls
    /\ probe \in {[fn |-> "split_into_chunks", text |-> t, max_chars |-> m,
                   chunks |-> <<>>, done |-> FALSE] :
                     t \in Strings({"a", " ", "\n"}, MaxTextLen),
                     m \in 1..MaxChunkChars}

Split ==
    /\ probe.fn = "split_into_chunks" /\ ~probe.done
    /\ probe' = [probe EXCEPT !.chunks = split_into_chunks(probe.text, probe.max_chars),
                              !.done = TRUE]
    /\ UNCHANGED <<index, mcp>>
    /\ UNCHANGED core

ChunkSpec == ChunkInit /\ [][Split]_vars

\* C25 as stated: the chunks of a non-empty text, joined by "\n\n", are
\* the text.
C25_RoundTrip ==
    probe.fn = "split_into_chunks" /\ probe.done /\ probe.text # <<>>
        => Join(probe.chunks, NL \o NL) = probe.text

\* A text made of paragraphs that neither begin nor end with white space,
\* with exactly "\n\n" between one and the next.
WellSpaced(text) ==
    /\ text # <<>>
    /\ ~IsWs(text[1]) /\ ~IsWs(text[Len(text)])
    /\ \A i \in 1..(Len(text) - 1) :
           text[i] = "\n" /\ text[i + 1] = "\n"
               => ~IsWs(text[i - 1]) /\ ~IsWs(text[i + 2])

\* C25, amended: for every text and max_chars the chunks, joined by
\* "\n\n", are the paragraphs of the text (its pieces between runs of two
\* or more line breaks, stripped, the blank ones left out) joined by
\* "\n\n", each once and in order; so the text comes back exactly when it
\* is made of such paragraphs with "\n\n" between them.
C25_ParagraphsRoundTrip ==
    probe.fn = "split_into_chunks" /\ probe.done
        => /\ Join(probe.chunks, NL \o NL) = Join(Paragraphs(probe.text), NL \o NL)
           /\ WellSpaced(probe.text) <=> Join(probe.chunks, NL \o NL) = probe.text
                                            /\ probe.text # <<>>

\* A text of two paragraphs was split into two chunks and comes back.
C25_SplitInTwo ==
    /\ probe.fn = "split_into_chunks" /\ probe.done
    /\ WellSpaced(probe.text)
    /\ Len(probe.chunks) = 2
    /\ Join(probe.chunks, NL \o NL) = probe.text

(***************************************************************************)
(* The validators applied to one input each                                *)
(***************************************************************************)

\* n tokens "z", each followed by a blank.
Filler(n) == [i \in 1..(2 * n) |-> IF i % 2 = 1 THEN "z" ELSE " "]

\* s with blanks after it up to n characters.
Pad(s, n) == s \o Rep(" ", n - Len(s))

\* s, a blank and a word of x up to n characters.
PadWord(s, n) == s \o SP \o Rep("x", n - Len(s) - 1)

\* Source texts for the summary validator: the tokens a and s in either
\* case, neither of them, and a and s after 498, 499 and 500 other tokens.
SummarySources ==
    { <<"a", " ", "s">>, <<"A", " ", "S">>, <<"z">>,
      Filler(CoverageTokens - 2) \o <<"a", " ", "s">>,
      Filler(CoverageTokens - 1) \o <<"a", " ", "s">>,
      Filler(CoverageTokens) \o <<"a", " ", "s">> }

SummaryWords ==
    { <<"a", " ", "s">>, <<"A", " ", "s">>, <<"a", " ", "a">>, <<"a">>,
      <<"a", " ", "z">>, <<"s", "\n", "a", " ", "s">> }

\* Summaries around the two length limits, blank ones among them.
Summaries ==
    SummaryWords
    \cup { Pad(w, n) : w \in SummaryWords \cup {<<>>},
                       n \in {SummaryMinLen - 1, SummaryMinLen,
                              SummaryMaxLen, SummaryMaxLen + 1} }
    \cup { PadWord(w, n) : w \in SummaryWords,
                           n \in {SummaryMinLen - 1, SummaryMinLen} }
    \cup { <<>>, <<" ">> }

EntitySources == { <<"a", " ", "s">>, <<"A", " ", "S">> }

EntityNames == { <<>>, <<" ">>, <<"A">>, <<"z">>, <<"s">> }

\* Entity lists: every list of up to two names, one name among three to
\* five absent ones, five blank names, the spellings of "no entities", and
\* lists of 200 and 201 names.
EntityLists ==
    { <<>> }
    \cup { <<e>> : e \in EntityNames }
    \cup { <<e, f>> : e \in EntityNames, f \in EntityNames }
    \cup { <<e>> \o Rep(<<"z">>, k) : e \in EntityNames, k \in 3..5 }
    \cup { Rep(<<>>, PresenceDen), Rep(<<" ">>, PresenceDen) }
    \cup { <<SentinelText>>, <<<<"N", "o", "n", "e">>>>,
           <<SentinelText, <<"z">>>> }
    \cup { Rep(<<"a">>, 40) \o Rep(<<"z">>, MaxEntities - 40),
           Rep(<<"a">>, 39) \o Rep(<<"z">>, MaxEntities - 39),
           Rep(<<"a">>, MaxEntities + 1) }

Answers ==
    { DontKnowAnswer,
      <<"d", "o", "N", "'", "t", " ", "k", "N", "o", "w">>,
      <<"a", " ", "d", "o", "n", "'", "t", " ", "k", "n", "o", "w">>,
      <<"d", "o", "n", "t", " ", "k", "n", "o", "w">>,
      <<"d", "o", "n", "'", "t", "\n", "k", "n", "o", "w">>,
      <<"a", " ", "s">>, <<"A", " ", "s">>, <<"a", " ", "a">>, <<"a">>,
      <<"a", "s", " ", "n">>, <<"a", " ", "s", ".">>, <<"a", " ", "1">>,
      <<"z", " ", "i">>, <<>>, <<" ">>, <<"\n", " ">> }

ContextLists ==
    { <<>>, << <<"a", " ", "s">> >>, << <<"A", " ", "S">> >>,
      << <<"a">>, <<"s", " ", "n">> >>, << <<"z">> >>,
      << <<"n", "a", "s">> >>, << <<"a", " ", "s", ".">> >>,
      << DontKnowAnswer >> }

ValidatorInit ==
    /\ CoreIdle /\ index = NoIndex /\ mcp = NoCalls
    /\ probe \in
         { [fn |-> "SummaryValidator", raw_text |-> r, summary |-> s,
            out |-> Accept, done |-> FALSE] :
              r \in SummarySources, s \in Summaries }
         \cup
         { [fn |-> "EntityValidator", raw_text |-> r, entities |-> es,
            out |-> Accept, done |-> FALSE] :
              r \in EntitySources, es \in EntityLists }
         \cup
         { [fn |-> "QAValidator", answer |-> a, contexts |-> cs,
            out |-> Accept, done |-> FALSE] :
              a \in Answers, cs \in ContextLists }

SummaryChecked ==
    /\ probe.fn = "SummaryValidator" /\ ~probe.done
    /\ probe' = [probe EXCEPT !.out = SummaryValidate(probe.raw_text, probe.summary),
                              !.done = TRUE]
    /\ UNCHANGED <<index, mcp>>
    /\ UNCHANGED core

EntitiesChecked ==
    /\ probe.fn = "EntityValidator" /\ ~probe.done
    /\ probe' = [probe EXCEPT !.out = EntityValidate(probe.raw_text, probe.entities),
                              !.done = TRUE]
    /\ UNCHANGED <<index, mcp>>
    /\ UNCHANGED core

AnswerChecked ==
    /\ probe.fn = "QAValidator" /\ ~probe.done
    /\ probe' = [probe EXCEPT !.out = QAValidate(probe.answer, probe.contexts),
                              !.done = TRUE]
    /\ UNCHANGED <<index, mcp>>
    /\ UNCHANGED core

ValidatorNext == SummaryChecked \/ EntitiesChecked \/ AnswerChecked

ValidatorSpec == ValidatorInit /\ [][ValidatorNext]_vars

(***************************************************************************)
(* C26, C27: the summary validator                                         *)
(***************************************************************************)

SummaryJudged == probe.fn = "SummaryValidator" /\ probe.done

\* C26 as stated: every summary shorter than 40 characters is rejected
\* with too_short and every summary longer than 4000 with too_long,
\* whatever the source text.
C26_ShortAndLongRejected ==
    SummaryJudged =>
        /\ Len(probe.summary) < SummaryMinLen
               => ~probe.out.ok /\ probe.out.reason = "too_short"
        /\ Len(probe.summary) > SummaryMaxLen
               => ~probe.out.ok /\ probe.out.reason = "too_long"

\* C26, amended: whatever the source text, every summary that has a
\* character other than white space is rejected with too_short when it is
\* shorter than 40 characters and with too_long when it is longer than
\* 4000; an empty or white-space summary of any length is rejected with
\* empty_summary.
C26_NonBlankShortAndLongRejected ==
    SummaryJudged =>
        IF IsBlank(probe.summary)
        THEN ~probe.out.ok /\ probe.out.reason = "empty_summary"
        ELSE /\ Len(probe.summary) < SummaryMinLen
                    => ~probe.out.ok /\ probe.out.reason = "too_short"
             /\ Len(probe.summary) > SummaryMaxLen
                    => ~probe.out.ok /\ probe.out.reason = "too_long"

\* A summary of 39 characters that shares no token with the source was
\* rejected for its length.
C26_ShortForeignSummary ==
    /\ SummaryJudged
    /\ Len(probe.summary) = SummaryMinLen - 1
    /\ ~IsBlank(probe.summary)
    /\ \A t \in Range(SplitWs(probe.summary)) :
           ~Contains(Lower(probe.raw_text), Lower(t))
    /\ probe.out.reason = "too_short"

\* The distinct lower-case tokens of the summary that are among the first
\* 500 lower-case tokens of the source.
SharedTokens(raw_text, summary) ==
    LET words == SplitWs(raw_text)
        first == {Lower(words[i]) : i \in 1..Min(CoverageTokens, Len(words))}
    IN {Lower(t) : t \in Range(SplitWs(summary))} \cap first

\* C27: a summary that is not blank and has 40 to 4000 characters, both
\* included, is rejected with low_coverage when fewer than 2 of its
\* distinct lower-case tokens are among the first 500 lower-case tokens of
\* the source, and is accepted with no reason otherwise.
C27_CoverageDecides ==
    /\ SummaryJudged
    /\ ~IsBlank(probe.summary)
    /\ Len(probe.summary) >= SummaryMinLen
    /\ Len(probe.summary) <= SummaryMaxLen
    => probe.out =
           IF Cardinality(SharedTokens(probe.raw_text, probe.summary)) < CoverageMinHits
           THEN Reject("low_coverage")
           ELSE Accept

\* A summary of exactly 40 characters was rejected because the second
\* token it shares with the source is the source's 501st.
C27_SecondTokenPastTheCut ==
    /\ SummaryJudged
    /\ Len(probe.summary) = SummaryMinLen
    /\ Len(SplitWs(probe.raw_text)) > CoverageTokens
    /\ Cardinality(SharedTokens(probe.raw_text, probe.summary)) = 1
    /\ Cardinality(Range(SplitWs(Lower(probe.summary)))
                      \cap Range(SplitWs(Lower(probe.raw_text)))) = 2
    /\ probe.out = Reject("low_coverage")

(***************************************************************************)
(* C28: the entity validator                                               *)
(***************************************************************************)

\* A list the presence test is applied to: at most 200 entries and not the
\* one-entry list that spells "no entities".
EntitiesWeighed ==
    /\ probe.fn = "EntityValidator" /\ probe.done
    /\ Len(probe.entities) <= MaxEntities
    /\ ~(Len(probe.entities) = 1 /\ Lower(probe.entities[1]) \in NoEntityMarkers)

\* The entries whose lower-case text is a substring of the lower-case source.
Found(raw_text, entities) ==
    {i \in 1..Len(entities) : Contains(Lower(raw_text), Lower(entities[i]))}

\* The entries that are not blank.
Named(entities) ==
    {i \in 1..Len(entities) : \E k \in 1..Len(entities[i]) : ~IsWs(entities[i][k])}

\* C28 as stated: such a list, blank entries included, is rejected with
\* low_presence exactly when fewer than a fifth of its entries have their
\* lower-case text in the lower-case source.
C28_PresenceOfAllEntries ==
    EntitiesWeighed /\ probe.entities # <<>> =>
        (probe.out.reason = "low_presence" /\ ~probe.out.ok
            <=> PresenceDen * Cardinality(Found(probe.raw_text, probe.entities))
                    < PresenceNum * Len(probe.entities))

\* C28, amended: a non-empty such list is rejected with low_presence,
\* reporting the ratio, exactly when fewer than a fifth of its entries are
\* both non-blank and, in lower case, a substring of the lower-case
\* source; an empty or whitespace-only entry never counts as present; a
\* ratio of exactly 0.2 is accepted, and so is the empty list.
C28_PresenceOfNamedEntries ==
    EntitiesWeighed =>
        LET present == Cardinality(Found(probe.raw_text, probe.entities)
                                       \cap Named(probe.entities))
        IN IF probe.entities # <<>>
              /\ PresenceDen * present < PresenceNum * Len(probe.entities)
           THEN probe.out = [ok |-> FALSE, reason |-> "low_presence",
                             present |-> present, total |-> Len(probe.entities)]
           ELSE probe.out = Accept

\* A list of five entries, exactly one of them named and found in the
\* source, was accepted.
C28_ExactlyAFifth ==
    /\ EntitiesWeighed
    /\ Len(probe.entities) = PresenceDen
    /\ Cardinality(Found(probe.raw_text, probe.entities) \cap Named(probe.entities)) = 1
    /\ probe.out = Accept

(***************************************************************************)
(* C29, C30: the answer validator                                          *)
(***************************************************************************)

AnswerJudged == probe.fn = "QAValidator" /\ probe.done

\* The answer has a character other than white space.
Visible(answer) == \E i \in 1..Len(answer) : ~IsWs(answer[i])

\* "don't know" is in the answer, in whatever case.
Unsure(answer) ==
    \E i \in 1..Len(answer) :
        /\ i + Len(DontKnowMarker) - 1 <= Len(answer)
        /\ \A k \in 1..Len(DontKnowMarker) :
               LowerChar(answer[i + k - 1]) = DontKnowMarker[k]

\* The distinct alphabetic lower-case tokens of the answer that appear
\* somewhere in the lower-case contexts, joined line by line.
Grounded(answer, contexts) ==
    {t \in {Lower(w) : w \in Range(SplitWs(answer))} :
        IsAlpha(t) /\ Contains(Lower(Join(contexts, NL)), t)}

\* C29: an answer that is not blank and contains "don't know" in any case
\* is accepted for every list of contexts, however few of its tokens are
\* in them; the orchestrator's own "I don't know from the provided
\* documents." is such an answer.
C29_DontKnowAccepted ==
    /\ Unsure(DontKnowAnswer) /\ Visible(DontKnowAnswer)
    /\ AnswerJudged /\ Visible(probe.answer) /\ Unsure(probe.answer)
           => probe.out = Accept

\* An answer with the marker in capitals and no token in the contexts was
\* accepted.
C29_UnsureAndForeign ==
    /\ AnswerJudged
    /\ Unsure(probe.answer)
    /\ ~Contains(probe.answer, DontKnowMarker)
    /\ Grounded(probe.answer, probe.contexts) = {}
    /\ probe.out = Accept

\* C30: an answer that is not blank and has no "don't know" in it is
\* rejected as ungrounded when fewer than 2 of its distinct alphabetic
\* lower-case tokens appear somewhere in the lower-case contexts, and is
\* accepted otherwise; an empty or white-space answer is always rejected
\* as empty.
C30_GroundingDecides ==
    AnswerJudged =>
        IF ~Visible(probe.answer) THEN probe.out = Reject("empty_answer")
        ELSE ~Unsure(probe.answer) =>
                 probe.out =
                     IF Cardinality(Grounded(probe.answer, probe.contexts)) < AnswerMinHits
                     THEN Reject("ungrounded_answer")
                     ELSE Accept

\* An answer of two tokens that are both in the contexts, one of them not
\* alphabetic, was rejected as ungrounded.
C30_OnlyOneAlphabeticToken ==
    /\ AnswerJudged
    /\ ~Unsure(probe.answer)
    /\ Len(SplitWs(probe.answer)) = 2
    /\ \A t \in Range(SplitWs(probe.answer)) :
           Contains(Lower(Join(probe.contexts, NL)), Lower(t))
    /\ Cardinality(Grounded(probe.answer, probe.contexts)) = 1
    /\ probe.out = Reject("ungrounded_answer")

(***************************************************************************)
(* C31: what each operation may change in the store                        *)
(***************************************************************************)

\* The step is one of a call of `op` on document d.
ActsOn(op, d) ==
    \E c \in DOMAIN calls :
        /\ calls'[c] # calls[c]
        /\ \/ calls[c].op = op /\ calls[c].doc = d
           \/ calls[c].op = "idle" /\ calls'[c].op = op /\ calls'[c].doc = d

\* The step is the last of an ingestion of d: kb_add has answered and
\* put_document is called (lines 172-188).
Persists(d) ==
    \E c \in DOMAIN calls :
        /\ calls[c].op = "ingest" /\ calls[c].doc = d
        /\ calls[c].pc = "kb_add" /\ calls'[c].pc = "done"

\* The step is an apply_user_edit of d whose summary is empty or passes
\* the summary validator, and whose entities are None or pass the entity
\* validator, against the stored raw text.
AcceptedEdit(d) ==
    \E c \in DOMAIN calls :
        /\ calls[c].op = "idle" /\ calls'[c].op = "edit" /\ calls'[c].doc = d
        /\ d \in DOMAIN store.docs
        /\ LET raw == store.docs[d].raw_text
               s == calls'[c].summary
           IN /\ s = <<>> \/ SummaryValidate(raw, s).ok
              /\ calls'[c].has_entities => EntityValidate(raw, calls'[c].entities).ok

PairVariations == 1

\* A call that has just been made and waits for its first reply: the
\* parser's (line 99) or the search's (line 202).
InFlight(op, doc_id, st, k) ==
    IF op = "ingest"
    THEN [Idle EXCEPT !.op = "ingest", !.pc = "parse", !.doc = doc_id,
                      !.store0 = st, !.kb0 = k]
    ELSE [Idle EXCEPT !.op = "qa", !.pc = "qa_search", !.doc = doc_id,
                      !.store0 = st, !.kb0 = k,
                      !.sections = IF doc_id \in DOMAIN st.docs
                                   THEN st.docs[doc_id].sections ELSE <<>>]

\* An ingestion of d1 and an ingestion of d2 or a question on d2 are in
\* flight; d2 is stored already or not.
PairInit ==
    /\ store \in {EmptyStore, [corrupt |-> FALSE, docs |-> Put(EmptyDocs, "d2", PlainDoc)]}
    /\ kb = IF "d2" \in DOMAIN store.docs
            THEN Put(EmptyDocs, "d2",
                     KbChunks(Join(split_into_chunks(DocShort, IndexChunkChars), NL \o NL)))
            ELSE EmptyDocs
    /\ \E op \in {"ingest", "qa"} :
           calls = [c \in 1..2 |-> IF c = 1 THEN InFlight("ingest", "d1", store, kb)
                                   ELSE InFlight(op, "d2", store, kb)]
    /\ started = MaxCalls
    /\ budget = PairVariations
    /\ index = NoIndex /\ mcp = NoCalls /\ probe = NoProbe

\* The replies the two calls wait for arrive in any order.
PairNext ==
    \/ ParserReplied
    \/ SummarizerReplied
    \/ EntityExtractorReplied
    \/ SummaryReviewerReplied
    \/ SummaryArbiterReplied
    \/ KbAddReplied
    \/ SearchReplied
    \/ AnswerReplied
    \/ AnswerReviewerReplied
    \/ AnswerSecurityReplied
    \/ AnswerArbiterReplied
    \/ AnswerPerfReplied
    \/ CallOver

PairSpec == PairInit /\ [][PairNext]_vars

(***************************************************************************)
(* C32: calls on different doc ids                                         *)
(***************************************************************************)

\* Both calls are over and neither result has been handed back yet.
BothOver == DOMAIN calls = 1..2 /\ \A c \in 1..2 : calls[c].pc = "done"

\* The entry the call in slot c leaves for its document, given the entry
\* `before` it found (absent when `had` is FALSE): an ingestion that
\* returned leaves the record it put; one that raised and a question leave
\* the four fields as they were.
OwnFields(c, had, before) ==
    IF calls[c].op = "ingest" /\ calls[c].outcome = "returned"
    THEN [had |-> TRUE, raw_text |-> calls[c].raw_text, sections |-> calls[c].sections,
          summary |-> calls[c].summary, entities |-> calls[c].entities]
    ELSE IF had
    THEN [had |-> TRUE, raw_text |-> before.raw_text, sections |-> before.sections,
          summary |-> before.summary, entities |-> before.entities]
    ELSE [had |-> FALSE, raw_text |-> <<>>, sections |-> <<>>,
          summary |-> <<>>, entities |-> <<>>]

\* The four fields of d in the store, absent when there is no entry.
FieldsOf(st, d) ==
    IF d \in DOMAIN st.docs
    THEN [had |-> TRUE, raw_text |-> st.docs[d].raw_text, sections |-> st.docs[d].sections,
          summary |-> st.docs[d].summary, entities |-> st.docs[d].entities]
    ELSE [had |-> FALSE, raw_text |-> <<>>, sections |-> <<>>,
          summary |-> <<>>, entities |-> <<>>]

\* Each document is held as its own call left it.
EachAsItsCallLeftIt ==
    \A c \in 1..2 :
        LET d == calls[c].doc
            st0 == calls[c].store0
        IN FieldsOf(store, d)
               = OwnFields(c, d \in DOMAIN st0.docs,
                           IF d \in DOMAIN st0.docs THEN st0.docs[d] ELSE PlainDoc)

Chunked == probe.fn = "split_into_chunks" /\ probe.done

\* The chunk holds two paragraphs or more: it has the separator in it.
Packed(chunk) == Contains(chunk, NL \o NL)

\* C33: a chunk that packs two or more paragraphs is at most max_chars
\* long; when no paragraph of the text is longer than max_chars no chunk
\* is; a paragraph longer than max_chars is a chunk by itself, unsplit.
C33_PackedChunksBounded ==
    Chunked =>
        LET paras == Paragraphs(probe.text)
            chunks == probe.chunks
        IN /\ \A i \in 1..Len(chunks) :
                  Packed(chunks[i]) => Len(chunks[i]) <= probe.max_chars
           /\ (\A k \in 1..Len(paras) : Len(paras[k]) <= probe.max_chars)
                  => \A i \in 1..Len(chunks) : Len(chunks[i]) <= probe.max_chars
           /\ \A k \in 1..Len(paras) :
                  Len(paras[k]) > probe.max_chars
                      => \E i \in 1..Len(chunks) : chunks[i] = paras[k]

\* Two paragraphs were packed into a chunk of exactly max_chars.
C33_PackedToTheBound ==
    /\ Chunked
    /\ \E i \in 1..Len(probe.chunks) :
           Packed(probe.chunks[i]) /\ Len(probe.chunks[i]) = probe.max_chars

(***************************************************************************)
(* C34: the number of chunks against the bound                             *)
(***************************************************************************)

\* C34: for every text and bounds a <= b, split_into_chunks(text, a) has
\* at least as many chunks as split_into_chunks(text, b); a is the bound
\* the text was split with, b every bound from a up.
C34_FewerChunksForLargerBound ==
    Chunked =>
        \A b \in probe.max_chars..(MaxChunkChars + 1) :
            Len(probe.chunks) >= Len(split_into_chunks(probe.text, b))

\* A text was split into two chunks that a larger bound packs into one.
C34_LargerBoundPacks ==
    /\ Chunked
    /\ Len(probe.chunks) = 2
    /\ \E b \in (probe.max_chars + 1)..MaxChunkChars :
           Len(split_into_chunks(probe.text, b)) = 1

(***************************************************************************)
(* C35: what the index holds after ingestion                               *)
(***************************************************************************)

\* The ingestion in slot c is over and its kb_add call returned.
IndexedOver(c) ==
    /\ calls[c].op = "ingest" /\ calls[c].pc = "done"
    /\ Ev("put", calls[c].doc) \in Range(calls[c].log)
    /\ Ev("raise", "kb_add") \notin Range(calls[c].log)

\* C35: after an ingestion whose kb_add returned, the chunk list the index
\* holds for the doc id is the list split_into_chunks(raw_text, 1200)
\* produced: the same chunks in the same order.
C35_IndexHoldsTheChunks ==
    \A c \in DOMAIN calls :
        IndexedOver(c)
            => /\ calls[c].doc \in DOMAIN kb
               /\ kb[calls[c].doc] = split_into_chunks(calls[c].raw_text, IndexChunkChars)

(***************************************************************************)
(* C36: a reviewer's reply that is not JSON                                *)
(***************************************************************************)

\* The review is the parse-failure wrapper of the text: verdict fail, the
\* first RawKeep characters of the text as raw.
ParseFailure(review, text) ==
    /\ review.parse_error
    /\ review.verdict = "fail"
    /\ review.raw = Take(text, RawKeep)

\* In a question, the bias reviewer answered text that is not JSON and the
\* completeness reviewer passed the answer.
MalformedAgainstPass(c) ==
    /\ calls[c].op = "qa"
    /\ calls[c].bias.parse_error
    /\ calls[c].comp.verdict = "pass" /\ ~calls[c].comp.parse_error

EditReturned(c) ==
    /\ calls[c].op = "edit" /\ calls[c].pc = "done"
    /\ calls[c].outcome = "returned"
    /\ ~calls[c].store0.corrupt
    /\ calls[c].doc \in DOMAIN calls[c].store0.docs

\* C37: when apply_user_edit(d, s, e) has returned for a stored document
\* d, the stored summary is s, the empty summary included; the stored
\* entities are e when e is given and are those of before when e is None.
C37_AcceptedEditStored ==
    \A c \in DOMAIN calls :
        EditReturned(c)
            => /\ ~store.corrupt
               /\ calls[c].doc \in DOMAIN store.docs
               /\ LET now == store.docs[calls[c].doc]
                      before == calls[c].store0.docs[calls[c].doc]
                  IN /\ now.summary = calls[c].summary
                     /\ now.entities = IF calls[c].has_entities
                                       THEN calls[c].entities
                                       ELSE before.entities

\* An edit with the empty summary and no entities has returned: the
\* summary the document had is gone, its entities are kept.
C37_EmptySummaryStored ==
    \E c \in DOMAIN calls :
        /\ EditReturned(c)
        /\ calls[c].summary = <<>> /\ ~calls[c].has_entities
        /\ calls[c].store0.docs[calls[c].doc].summary # <<>>
        /\ calls[c].store0.docs[calls[c].doc].entities # <<>>
        /\ store.docs[calls[c].doc].summary = <<>>
        /\ store.docs[calls[c].doc].entities
               = calls[c].store0.docs[calls[c].doc].entities

(***************************************************************************)
(* C38: the summaries ingestion writes                                     *)
(***************************************************************************)

\* The ingestion in slot c has written its document (line 180) and
\* returned, and the store still shows the document.
PutShows(c) ==
    /\ calls[c].op = "ingest" /\ calls[c].pc = "done"
    /\ calls[c].outcome = "returned"
    /\ Ev("put", calls[c].doc) \in Range(calls[c].log)
    /\ ~store.corrupt
    /\ calls[c].doc \in DOMAIN store.docs

\* C38: every summary that ingest_document has written to the store is a
\* non-empty string of at most SummaryMaxLen characters, and of at most
\* FallbackChars characters when the summarizer failed or its summary was
\* rejected.
C38_StoredSummaryBounded ==
    \A c \in DOMAIN calls :
        PutShows(c)
            => LET written == store.docs[calls[c].doc].summary
               IN /\ written = calls[c].summary
                  /\ written # <<>>
                  /\ Len(written) <= SummaryMaxLen
                  /\ calls[c].sum_path # "valid" => Len(written) <= FallbackChars

\* An ingestion whose summary was rejected has written a fallback of
\* exactly FallbackChars characters, cut from a longer head of the text.
C38_FallbackCutToBound ==
    \E c \in DOMAIN calls :
        /\ PutShows(c)
        /\ calls[c].sum_path = "rejected"
        /\ Len(FallbackHead(calls[c].raw_text)) > FallbackChars
        /\ Len(store.docs[calls[c].doc].summary) = FallbackChars

====
